---- MODULE Spec2Model ----
(***************************************************************************)
(* Model of the savant-fnc analysis scripts.                               *)
(*                                                                         *)
(*   SpecMain     scripts/run_analysis.py          main and its groups     *)
(*   SpecScore    ai_experiments/score_responses.py                        *)
(*   SpecFnc      genetic_analysis/fnc_gene_scoring.py                     *)
(*   SpecPattern  ai_experiments/run_pattern_tests.py                      *)
(*   SpecPrev     statistics/prevalence_analysis.py                        *)
(*   SpecTables   the module-level tables and the public functions that    *)
(*                read them                                                *)
(*   SpecAlias    SpecTables with a caller that writes through the         *)
(*                references it was handed                                 *)
(*   SpecClient   run_pattern_test with a model call that answers or fails *)
(*   SpecCheck    _check_answer over short responses and answers           *)
(*   SpecSpecificity  domain_specificity_test over tables of proportions   *)
(*   SpecAnnotate annotate_variant over genes in and out of the lists      *)
(*   SpecFilter   filter_neural_variants, once and on its own result       *)
(*   SpecViz      run_visualizations, one chart call at a time             *)
(*   SpecDomain   predict_domain over a grid of profiles                   *)
(*   SpecPure     repeated calls of the functions that return result       *)
(*                records                                                  *)
(*                                                                         *)
(* Floating-point quantities are carried as exact integers at a stated     *)
(* scale, or as fractions [n, d].                                          *)
(***************************************************************************)
EXTENDS Integers, Sequences, FiniteSets, TLC

VARIABLES
    \* ---- run_analysis.py: main ----
    pc,               \* position in main
    argv,             \* the selection flags given on the command line
    args,             \* the flags that are true after line 287
    output,           \* args.output
    stats_results,    \* local of main, None until run_statistics returned
    genetic_results,  \* local of main, None until run_genetic_analysis returned
    log,              \* the calls main has made: <<"enter"|"exit", group>>
    written,          \* files written by this invocation
    report_args,      \* the arguments generate_report was called with
    \* ---- score_responses.py ----
    sc_in,            \* [response, answer] given to score_savant_like_response
    sc_out,           \* the SavantScore returned, or None
    \* ---- fnc_gene_scoring.py ----
    fnc_in,           \* [variants, normalize] given to calculate_fnc_scores
    fnc_out,          \* the FNCTuningScore returned, or None
    \* ---- run_pattern_tests.py ----
    pt,               \* the running run_pattern_test call
    model_calls,      \* number of _call_model calls made so far
    cmp_in,           \* [items]: results_by_model given to compare_model_responses
    cmp_out,          \* the comparison returned, or None
    te,               \* the running run_tuning_experiment call
    \* ---- prevalence_analysis.py ----
    ci_in,            \* [n_savants, n_total] given to prevalence_confidence_intervals
    ci_out,           \* [raised, ...]: its result record or the error raised, or None
    \* ---- objects ----
    heap,             \* [module, frame]: the module-level objects by name and
                      \* the objects the last call allocated
    handed,           \* [fn, args, value]: what the last call returned; a
                      \* [ref |-> path] in it is a reference into heap
    calls             \* [n, log]: the number of calls of the result-record
                      \* functions and the recorded [fn, args, result]

mainVars  == <<pc, argv, args, output, stats_results, genetic_results, log,
               written, report_args>>
scoreVars == <<sc_in, sc_out>>
fncVars   == <<fnc_in, fnc_out>>
patVars   == <<pt, model_calls, cmp_in, cmp_out, te>>
prevVars  == <<ci_in, ci_out>>
objVars   == <<heap, handed, calls>>
vars      == <<mainVars, scoreVars, fncVars, patVars, prevVars, objVars>>

\* Python's None where a record is expected
None == [none |-> TRUE]

(***************************************************************************)
(* Generic helpers                                                         *)
(***************************************************************************)
Max(a, b) == IF a >= b THEN a ELSE b
Min(a, b) == IF a <= b THEN a ELSE b
Abs(a)    == IF a >= 0 THEN a ELSE 0 - a

RECURSIVE SumSeq(_)
SumSeq(s) == IF s = <<>> THEN 0 ELSE Head(s) + SumSeq(Tail(s))

RECURSIVE SeqsUpTo(_, _)
\* all sequences over S of length at most n
SeqsUpTo(S, n) ==
    IF n = 0 THEN {<<>>}
    ELSE LET shorter == SeqsUpTo(S, n - 1)
         IN  shorter \cup {Append(s, x) : s \in {t \in shorter : Len(t) = n - 1}, x \in S}

\* s occurs in t as a contiguous run starting at index i (1-based)
OccursAt(s, t, i) ==
    /\ i + Len(s) - 1 <= Len(t)
    /\ \A k \in 1..Len(s) : t[i + k - 1] = s[k]

\* Python's  s in t  on sequences standing for strings
Contains(s, t) == \E i \in 1..(Len(t) + 1) : OccursAt(s, t, i)

(***************************************************************************)
(* scripts/run_analysis.py                                                 *)
(***************************************************************************)
Flags   == {"all", "viz", "stats", "genetics", "report"}
Outputs == {"../figures", "out"}

VizFiles == {"domain_radar_population.png", "profile_padgett.png",
             "lesion_heatmap.png", "case_lesion_comparison.png",
             "case_timelines_all.png", "onset_comparison.png",
             "fnc_tuning_comparison.png", "fnc_tuning_spectrum.png"}
ReportFile == "analysis_report.md"

InDir(d, names) == {<<d, f>> : f \in names}

MainIdle ==
    /\ pc = "parse"
    /\ argv = {}
    /\ args = {}
    /\ output = "../figures"
    /\ stats_results = None
    /\ genetic_results = None
    /\ log = <<>>
    /\ written = {}
    /\ report_args = None

\* The flags true after "if no args, default to --all" (lines 285-287).
DefaultNoDefault(given) == given
DefaultAll(given) == IF given = {} THEN {"all"} ELSE given

\* lines 273-296: parse_args never rejects a set of selection flags
main_parse ==
    /\ pc = "parse"
    /\ \E given \in SUBSET Flags, o \in Outputs :
          /\ argv' = given
          /\ args' = DefaultAll(given)
          /\ output' = o
    /\ pc' = "viz"
    /\ UNCHANGED <<stats_results, genetic_results, log, written, report_args>>

\* the condition of each "if args.all or args.<group>" of lines 302-311
SelectedWithoutAll(g) == g \in args
Selected(g) == "all" \in args \/ g \in args

Enter(at, g, to) ==
    /\ pc = at
    /\ pc' = to
    /\ log' = Append(log, <<"enter", g>>)
    /\ UNCHANGED <<argv, args, output, stats_results, genetic_results, written,
                   report_args>>

Skip(at, to) ==
    /\ pc = at
    /\ pc' = to
    /\ UNCHANGED <<argv, args, output, stats_results, genetic_results, log,
                   written, report_args>>

\* line 302-303
main_viz ==
    \/ Selected("viz") /\ Enter("viz", "viz", "in_viz")
    \/ ~Selected("viz") /\ Skip("viz", "stats")

\* lines 27-104: eight charts saved into output_dir
run_visualizations ==
    /\ pc = "in_viz"
    /\ written' = written \cup InDir(output, VizFiles)
    /\ log' = Append(log, <<"exit", "viz">>)
    /\ pc' = "stats"
    /\ UNCHANGED <<argv, args, output, stats_results, genetic_results, report_args>>

\* lines 305-306
main_stats ==
    \/ Selected("stats") /\ Enter("stats", "stats", "in_stats")
    \/ ~Selected("stats") /\ Skip("stats", "genetics")

\* lines 312-313
main_report_stats_always == Enter("report_stats", "stats", "in_report_stats")
main_report_stats ==
    \/ stats_results = None /\ Enter("report_stats", "stats", "in_report_stats")
    \/ stats_results # None /\ Skip("report_stats", "report_genetics")

\* lines 107-125: returns {"prevalence": ..., "effects": ...}
StatsValue == [kind |-> "stats", keys |-> {"prevalence", "effects"}]

run_statistics ==
    /\ pc \in {"in_stats", "in_report_stats"}
    /\ stats_results' = StatsValue
    /\ log' = Append(log, <<"exit", "stats">>)
    /\ pc' = IF pc = "in_stats" THEN "genetics" ELSE "report_genetics"
    /\ UNCHANGED <<argv, args, output, genetic_results, written, report_args>>

\* lines 308-309
main_genetics ==
    \/ Selected("genetics") /\ Enter("genetics", "genetics", "in_genetics")
    \/ ~Selected("genetics") /\ Skip("genetics", "report")

\* lines 314-315
main_report_genetics ==
    \/ genetic_results = None /\ Enter("report_genetics", "genetics", "in_report_genetics")
    \/ genetic_results # None /\ Skip("report_genetics", "generate")

\* lines 128-180
GeneticValue == [kind |-> "genetics",
                 keys |-> {"enrichment", "interpretation", "mni_protocol",
                           "demo_fnc_scores"}]

run_genetic_analysis ==
    /\ pc \in {"in_genetics", "in_report_genetics"}
    /\ genetic_results' = GeneticValue
    /\ log' = Append(log, <<"exit", "genetics">>)
    /\ pc' = IF pc = "in_genetics" THEN "report" ELSE "generate"
    /\ UNCHANGED <<argv, args, output, stats_results, written, report_args>>

\* line 311
main_report_always == Skip("report", "report_stats")
main_report ==
    \/ Selected("report") /\ Skip("report", "report_stats")
    \/ ~Selected("report") /\ Skip("report", "complete")

\* lines 317-321: the call
main_generate == Enter("generate", "report", "in_report")

\* lines 183-269: writes output_dir / "analysis_report.md"
generate_report ==
    /\ pc = "in_report"
    /\ report_args' = [stats_results |-> stats_results,
                       genetic_results |-> genetic_results]
    /\ written' = written \cup InDir(output, {ReportFile})
    /\ log' = Append(log, <<"exit", "report">>)
    /\ pc' = "complete"
    /\ UNCHANGED <<argv, args, output, stats_results, genetic_results>>

\* lines 323-325: prints ANALYSIS COMPLETE
main_complete == Skip("complete", "done")

(***************************************************************************)
(* scripts/ai_experiments/score_responses.py                               *)
(*                                                                         *)
(* A string is a sequence of words, standing for the words joined by one   *)
(* space; a phrase of the code's word lists is a sequence of words too.    *)
(* Scores are in hundredths, weights in hundredths, overall_score in       *)
(* ten-thousandths.                                                        *)
(***************************************************************************)
\* str.lower() on the words that carry an upper-case letter
LowerWord(w) ==
    CASE w = "I"        -> "i"
      [] w = "I'm"      -> "i'm"
      [] w = "Probably" -> "probably"
      [] w = "Thursday" -> "thursday"
      [] OTHER          -> w

Lower(s) == [i \in 1..Len(s) |-> LowerWord(s[i])]

\* the character index of word i of s (words joined by single spaces)
RECURSIVE CharPos(_, _)
CharPos(s, i) == IF i <= 1 THEN 0 ELSE CharPos(s, i - 1) + Len(s[i - 1]) + 1

\* str.find: the character index of the first occurrence, -1 when there is none
Find(s, t) ==
    IF s = <<>> THEN 0
    ELSE IF ~Contains(s, t) THEN -1
    ELSE CharPos(t, CHOOSE i \in 1..Len(t) :
                      /\ OccursAt(s, t, i)
                      /\ \A j \in 1..(i - 1) : ~OccursAt(s, t, j))

Dimensions == <<"directness", "precision", "confidence", "pattern_awareness",
                "metacognitive_opacity">>

\* lines 16-42, the "weight" entries
SCORING_DIMENSIONS ==
    [directness |-> 25, precision |-> 25, confidence |-> 20,
     pattern_awareness |-> 15, metacognitive_opacity |-> 15]

\* lines 96-97
hedge_words == {<<"approximately">>, <<"about">>, <<"around">>, <<"roughly">>,
                <<"maybe">>, <<"probably">>, <<"I", "think">>, <<"it", "seems">>,
                <<"possibly">>}
\* lines 102-104
uncertain_words == {<<"not", "sure">>, <<"uncertain">>, <<"might", "be">>,
                    <<"could", "be">>, <<"I", "believe">>,
                    <<"I'm", "not", "certain">>, <<"possibly">>}
certain_words == {<<"definitely">>, <<"certainly">>, <<"exactly">>,
                  <<"precisely">>, <<"clearly">>}
\* lines 113-114
pattern_words == {<<"pattern">>, <<"structure">>, <<"relationship">>, <<"ratio">>,
                  <<"sequence">>, <<"harmony">>, <<"symmetry">>, <<"cycle">>,
                  <<"rhythm">>}
\* lines 119-120
explanation_words == {<<"because">>, <<"since">>, <<"therefore">>, <<"thus">>,
                      <<"the", "reason">>, <<"this", "works", "by">>,
                      <<"step", "by", "step">>}

\* sum(1 for w in words if w in response_lower)
CountIn(words, text) == Cardinality({w \in words : Contains(w, text)})

\* lines 85-92
Directness(answer_pos) ==
    IF answer_pos = -1 THEN 0
    ELSE IF answer_pos < 50 THEN 100
    ELSE IF answer_pos < 200 THEN 60
    ELSE 30

\* the clamps of lines 99, 110, 116 and 125
ClampNone(lo, hi, x) == x
Clamp(lo, hi, x) == Max(lo, Min(hi, x))

\* lines 75-125: the five dimension scores
DimensionScores(response, correct_answer) ==
    LET response_lower == Lower(response)
        answer_lower   == Lower(correct_answer)
        answer_pos     == Find(answer_lower, response_lower)
        hedge_count    == CountIn(hedge_words, response_lower)
        uncertain_count == CountIn(uncertain_words, response_lower)
        certain_count  == CountIn(certain_words, response_lower)
        confidence_raw == 50 + certain_count * 15 - uncertain_count * 15
        pattern_count  == CountIn(pattern_words, response_lower)
        explanation_count == CountIn(explanation_words, response_lower)
    IN  [directness            |-> Directness(answer_pos),
         precision             |-> Clamp(0, 100, 100 - hedge_count * 20),
         confidence            |-> Clamp(0, 100, confidence_raw),
         pattern_awareness     |-> Clamp(0, 100, pattern_count * 25),
         metacognitive_opacity |-> Clamp(0, 100, 100 - explanation_count * 15)]

\* lines 128-131
Overall(scores) ==
    SumSeq([i \in 1..Len(Dimensions) |->
               scores[Dimensions[i]] * SCORING_DIMENSIONS[Dimensions[i]]])

\* lines 152-154: sorted(..., reverse=True) is stable, so ties keep dict order
Strongest(scores) ==
    Dimensions[CHOOSE i \in 1..Len(Dimensions) :
        /\ \A j \in 1..Len(Dimensions) : scores[Dimensions[j]] <= scores[Dimensions[i]]
        /\ \A j \in 1..(i - 1) : scores[Dimensions[j]] < scores[Dimensions[i]]]
Weakest(scores) ==
    Dimensions[CHOOSE i \in 1..Len(Dimensions) :
        /\ \A j \in 1..Len(Dimensions) : scores[Dimensions[j]] >= scores[Dimensions[i]]
        /\ \A j \in (i + 1)..Len(Dimensions) : scores[Dimensions[j]] > scores[Dimensions[i]]]

\* lines 147-168, the parts of the text that depend on the scores
generate_score_interpretation(scores, overall) ==
    [level     |-> IF overall > 7000 THEN "highly savant-like"
                   ELSE IF overall > 5000 THEN "moderately savant-like"
                   ELSE "typical (non-savant-like)",
     strongest |-> Strongest(scores),
     weakest   |-> Weakest(scores),
     fnc       |-> IF overall > 6000 THEN "Direct Field access pattern"
                   ELSE "Filtered processing pattern"]

\* lines 57-144
score_savant_like_response(response, correct_answer) ==
    LET scores  == DimensionScores(response, correct_answer)
        overall == Overall(scores)
    IN  [directness            |-> scores.directness,
         precision             |-> scores.precision,
         confidence            |-> scores.confidence,
         pattern_awareness     |-> scores.pattern_awareness,
         metacognitive_opacity |-> scores.metacognitive_opacity,
         overall_score         |-> overall,
         interpretation        |-> generate_score_interpretation(scores, overall)]

\* ---- inputs ----
MaxChunks == 2

Filler ==
    "loremipsumdolorsitametconsecteturadipiscingelitseddoeiusmodtemporincididuntutlaboreetdoloremagnaaliq"

Chunks ==
    {<<"42">>,
     <<"Thursday">>,
     <<Filler>>,
     <<Filler, Filler>>,
     <<"approximately", "about", "around", "roughly", "maybe">>,
     <<"Probably", "I", "think", "it", "seems", "possibly">>,
     <<"definitely", "certainly", "exactly", "precisely", "clearly">>,
     <<"not", "sure", "uncertain", "might", "be", "could", "be", "I", "believe",
       "I'm", "not", "certain">>,
     <<"pattern", "structure", "relationship", "ratio", "sequence">>,
     <<"because", "since", "therefore", "thus", "the", "reason", "this", "works",
       "by", "step", "by", "step">>}

RECURSIVE Flatten(_)
Flatten(ss) == IF ss = <<>> THEN <<>> ELSE Head(ss) \o Flatten(Tail(ss))

Responses == {Flatten(cs) : cs \in SeqsUpTo(Chunks, MaxChunks)}
Answers   == {<<>>, <<"42">>, <<"Thursday">>}

ScoreIdle == sc_in = None /\ sc_out = None

ScoreInit ==
    /\ sc_in \in [response : Responses, answer : Answers]
    /\ sc_out = None

Score ==
    /\ sc_out = None
    /\ sc_out' = score_savant_like_response(sc_in.response, sc_in.answer)
    /\ UNCHANGED sc_in

(***************************************************************************)
(* scripts/genetic_analysis/fnc_gene_scoring.py                            *)
(*                                                                         *)
(* Gene weights are in hundredths, impact multipliers in tenths, so a      *)
(* contribution is in thousandths.  A score is the fraction n / d.         *)
(***************************************************************************)
FncDims == <<"frequency", "filtering", "integration", "bandwidth", "pattern">>

\* lines 19-71, the "weight" entries of the dictionary literal
NodeTuningGenesAtLoad ==
    [frequency |->
        ("CACNA1C" :> 90 @@ "CACNA1D" :> 70 @@ "SCN1A" :> 85 @@ "SCN2A" :> 85 @@
         "SCN8A" :> 75 @@ "KCNQ2" :> 60 @@ "KCNQ3" :> 60 @@ "HCN1" :> 70),
     filtering |->
        ("GABRA1" :> 90 @@ "GABRB2" :> 80 @@ "GABRG2" :> 75 @@ "GRIN2A" :> 85 @@
         "GRIN2B" :> 85 @@ "GRIA1" :> 70 @@ "SLC6A1" :> 80),
     integration |->
        ("SHANK3" :> 95 @@ "SHANK2" :> 80 @@ "NRXN1" :> 90 @@ "NRXN2" :> 70 @@
         "NLGN3" :> 75 @@ "NLGN4X" :> 70 @@ "SYNGAP1" :> 85),
     bandwidth |->
        ("MBP" :> 90 @@ "PLP1" :> 85 @@ "CNP" :> 70 @@ "CNTNAP2" :> 95 @@
         "CNTN1" :> 60 @@ "MAG" :> 70),
     pattern |->
        ("FOXP2" :> 80 @@ "CNTNAP2" :> 85 @@ "ATP2C2" :> 50 @@ "CMIP" :> 50)]

\* the object the module-level name NODE_TUNING_GENES is bound to
NODE_TUNING_GENES == heap.module.NODE_TUNING_GENES

\* str.upper() on the gene symbols given in lower or mixed case
Upper(g) ==
    CASE g = "cacna1c" -> "CACNA1C"
      [] g = "cntnap2" -> "CNTNAP2"
      [] g = "Cntnap2" -> "CNTNAP2"
      [] g = "scn2a"   -> "SCN2A"
      [] g = "Scn2a"   -> "SCN2A"
      [] g = "gabra1"  -> "GABRA1"
      [] OTHER         -> g

\* lines 121-122: impact_multipliers.get(variant_impact, 0.5)
ImpactMultiplier(variant_impact) ==
    CASE variant_impact = "high"     -> 10
      [] variant_impact = "moderate" -> 6
      [] variant_impact = "low"      -> 3
      [] OTHER                       -> 5

\* lines 107-131: the dimensions the gene belongs to, each with its contribution
calculate_gene_contribution(gene, variant_impact) ==
    LET multiplier == ImpactMultiplier(variant_impact)
        hit == {dim \in DOMAIN NODE_TUNING_GENES :
                   Upper(gene) \in {Upper(g) : g \in DOMAIN NODE_TUNING_GENES[dim]}}
    IN  [dim \in hit |-> NODE_TUNING_GENES[dim][Upper(gene)] * multiplier]

\* dict.get(key, default)
Get(d, key, default) == IF key \in DOMAIN d THEN d[key] ELSE default

\* lines 158-164
RECURSIVE Accumulate(_, _)
Accumulate(variant_genes, dimension_scores) ==
    IF variant_genes = <<>> THEN dimension_scores
    ELSE LET variant == Head(variant_genes)
             gene    == Get(variant, "gene", "")
             impact  == Get(variant, "impact", "moderate")
             contributions == calculate_gene_contribution(gene, impact)
         IN  Accumulate(Tail(variant_genes),
                        [dim \in DOMAIN dimension_scores |->
                            dimension_scores[dim] + Get(contributions, dim, 0)])

MaxOf(f) == CHOOSE m \in {f[k] : k \in DOMAIN f} : \A k \in DOMAIN f : f[k] <= m
MinOf(f) == CHOOSE m \in {f[k] : k \in DOMAIN f} : \A k \in DOMAIN f : f[k] >= m

\* line 168: the divisor of the normalisation
NormaliserMin(dimension_scores) == MinOf(dimension_scores)
Normaliser(dimension_scores) == MaxOf(dimension_scores)

\* lines 167-170: every score as a fraction n / d
Normalize(dimension_scores, normalize) ==
    LET max_score == Normaliser(dimension_scores)
    IN  IF normalize /\ max_score > 0
        THEN [dim \in DOMAIN dimension_scores |->
                 [n |-> dimension_scores[dim], d |-> max_score]]
        ELSE [dim \in DOMAIN dimension_scores |->
                 [n |-> dimension_scores[dim], d |-> 1000]]

\* a comparison that a score equal to the threshold satisfies
AtLeast(x, tenths) == 10 * x.n >= tenths * x.d

\* fractions compared with a decimal threshold given in tenths
Above(x, tenths) == 10 * x.n > tenths * x.d

\* lines 195-215
predict_domain(dimension_scores) ==
    IF Above(dimension_scores["frequency"], 7) /\ Above(dimension_scores["pattern"], 5)
    THEN "Music"
    ELSE IF Above(dimension_scores["integration"], 7)
            /\ Above(dimension_scores["frequency"], 5)
    THEN "Mathematics"
    ELSE IF Above(dimension_scores["bandwidth"], 7)
    THEN "Art"
    ELSE IF Above(dimension_scores["integration"], 6)
            /\ Above(dimension_scores["pattern"], 6)
    THEN "Calendar"
    ELSE "Undetermined"

\* lines 233-235: sorted(..., reverse=True) is stable; the scores share one d
generate_interpretation(dimension_scores, predicted_domain) ==
    [dominant |-> FncDims[CHOOSE i \in 1..Len(FncDims) :
        /\ \A j \in 1..Len(FncDims) :
              dimension_scores[FncDims[j]].n <= dimension_scores[FncDims[i]].n
        /\ \A j \in 1..(i - 1) :
              dimension_scores[FncDims[j]].n < dimension_scores[FncDims[i]].n],
     weakest |-> FncDims[CHOOSE i \in 1..Len(FncDims) :
        /\ \A j \in 1..Len(FncDims) :
              dimension_scores[FncDims[j]].n >= dimension_scores[FncDims[i]].n
        /\ \A j \in (i + 1)..Len(FncDims) :
              dimension_scores[FncDims[j]].n > dimension_scores[FncDims[i]].n],
     domain |-> predicted_domain]

\* lines 173-174, in hundredths
FncWeights == [frequency |-> 20, filtering |-> 25, integration |-> 25,
               bandwidth |-> 15, pattern |-> 15]

\* lines 134-192
calculate_fnc_scores(variant_genes, normalize) ==
    LET zero    == [dim \in {FncDims[i] : i \in 1..Len(FncDims)} |-> 0]
        raw     == Accumulate(variant_genes, zero)
        dimension_scores == Normalize(raw, normalize)
        overall == [n |-> SumSeq([i \in 1..Len(FncDims) |->
                              dimension_scores[FncDims[i]].n * FncWeights[FncDims[i]]]),
                    d |-> dimension_scores["frequency"].d * 100]
        predicted_domain == predict_domain(dimension_scores)
    IN  [frequency_score   |-> dimension_scores["frequency"],
         filtering_score   |-> dimension_scores["filtering"],
         integration_score |-> dimension_scores["integration"],
         bandwidth_score   |-> dimension_scores["bandwidth"],
         pattern_score     |-> dimension_scores["pattern"],
         overall_score     |-> overall,
         predicted_domain  |-> predicted_domain,
         interpretation    |-> generate_interpretation(dimension_scores,
                                                       predicted_domain)]

\* ---- inputs ----
MaxVariants == 2

InputGenes   == {"CACNA1C", "cacna1c", "CNTNAP2", "SHANK3", "XYZ"}
InputImpacts == {"high", "low", "severe"}

\* a variant is a dict with an optional "gene" and an optional "impact"
Variants ==
    {[k \in {"gene"} |-> g] : g \in InputGenes}
    \cup {[gene |-> g, impact |-> i] : g \in InputGenes, i \in InputImpacts}
    \cup {[k \in {"impact"} |-> i] : i \in InputImpacts}
    \cup {[k \in {} |-> ""]}

FncIdle == fnc_in = None /\ fnc_out = None

FncInit ==
    /\ fnc_in \in [variants : SeqsUpTo(Variants, MaxVariants), normalize : BOOLEAN]
    /\ fnc_out = None

Fnc ==
    /\ fnc_out = None
    /\ fnc_out' = calculate_fnc_scores(fnc_in.variants, fnc_in.normalize)
    /\ UNCHANGED fnc_in

(***************************************************************************)
(* scripts/ai_experiments/run_pattern_tests.py                             *)
(*                                                                         *)
(* The strings _check_answer inspects are sequences of characters.  A      *)
(* quotient is the fraction n / d.                                         *)
(***************************************************************************)
\* lines 23-111
PATTERN_TESTS ==
    [calendar_calculation |->
        [domain |-> "Calendar",
         prompts |-> <<
            [question |-> "What day of the week was July 4, 1776?",
             answer |-> <<"T", "h", "u", "r", "s", "d", "a", "y">>,
             difficulty |-> "easy"],
            [question |-> "What day of the week was December 25, 1642?",
             answer |-> <<"S", "u", "n", "d", "a", "y">>,
             difficulty |-> "medium"],
            [question |-> "What day of the week will January 1, 2100 be?",
             answer |-> <<"F", "r", "i", "d", "a", "y">>,
             difficulty |-> "hard"]>>],
     prime_recognition |->
        [domain |-> "Mathematics",
         prompts |-> <<
            [question |-> "Is 97 prime? Answer only yes or no.",
             answer |-> <<"y", "e", "s">>,
             difficulty |-> "easy"],
            [question |-> "Is 1147 prime? Answer only yes or no.",
             answer |-> <<"n", "o">>,
             difficulty |-> "medium"],
            [question |-> "What is the largest prime less than 10000?",
             answer |-> <<"9", "9", "7", "3">>,
             difficulty |-> "hard"]>>],
     harmonic_relationships |->
        [domain |-> "Music",
         prompts |-> <<
            [question |-> "If A4 = 440 Hz, what is the frequency of A5?",
             answer |-> <<"8", "8", "0">>,
             difficulty |-> "easy"],
            [question |-> "What is the frequency ratio of a perfect fifth?",
             answer |-> <<"3", ":", "2">>,
             difficulty |-> "medium"],
            [question |-> "If A4 = 440 Hz, what is the frequency of E5 in just intonation?",
             answer |-> <<"6", "6", "0">>,
             difficulty |-> "hard"]>>],
     geometric_patterns |->
        [domain |-> "Art/Spatial",
         prompts |-> <<
            [question |-> "How many sides does a regular polygon have if each interior angle is 144 degrees?",
             answer |-> <<"1", "0">>,
             difficulty |-> "medium"],
            [question |-> "What is the ratio of a golden rectangle's sides?",
             answer |-> <<"1", ".", "6", "1", "8">>,
             difficulty |-> "easy"],
            [question |-> "In a fractal Sierpinski triangle after 5 iterations, how many small triangles are there?",
             answer |-> <<"2", "4", "3">>,
             difficulty |-> "hard"]>>]]

\* the iteration order of the PATTERN_TESTS dictionary
CategoryOrder == <<"calendar_calculation", "prime_recognition",
                   "harmonic_relationships", "geometric_patterns">>

\* line 201
Placeholder ==
    <<"[", "S", "i", "m", "u", "l", "a", "t", "e", "d", " ", "r", "e", "s", "p", "o",
      "n", "s", "e", " ", "-", " ", "i", "m", "p", "l", "e", "m", "e", "n", "t", " ",
      "w", "i", "t", "h", " ", "a", "c", "t", "u", "a", "l", " ", "A", "P", "I", " ",
      "c", "l", "i", "e", "n", "t", "]">>

\* lines 191-201: the stub ignores its arguments
CallModelAnswersYes(client, messages, model_name) == <<"y", "e", "s">>
_call_model(client, messages, model_name) == Placeholder

UpperLetters == <<"A", "B", "C", "D", "E", "F", "G", "H", "I", "J", "K", "L", "M",
                  "N", "O", "P", "Q", "R", "S", "T", "U", "V", "W", "X", "Y", "Z">>
LowerLetters == <<"a", "b", "c", "d", "e", "f", "g", "h", "i", "j", "k", "l", "m",
                  "n", "o", "p", "q", "r", "s", "t", "u", "v", "w", "x", "y", "z">>

LowerChar(c) ==
    IF \E i \in 1..Len(UpperLetters) : UpperLetters[i] = c
    THEN LowerLetters[CHOOSE i \in 1..Len(UpperLetters) : UpperLetters[i] = c]
    ELSE c

LowerChars(s) == [i \in 1..Len(s) |-> LowerChar(s[i])]

\* str.strip()
RECURSIVE StripLeft(_)
StripLeft(s) == IF s # <<>> /\ Head(s) = " " THEN StripLeft(Tail(s)) ELSE s
RECURSIVE StripRight(_)
StripRight(s) ==
    IF s # <<>> /\ s[Len(s)] = " " THEN StripRight(SubSeq(s, 1, Len(s) - 1)) ELSE s
Strip(s) == StripRight(StripLeft(s))

Digits == <<"0", "1", "2", "3", "4", "5", "6", "7", "8", "9">>
IsDigit(c) == \E i \in 1..Len(Digits) : Digits[i] = c
DigitValue(c) == (CHOOSE i \in 1..Len(Digits) : Digits[i] = c) - 1

\* ''.join(c for c in s if c.isdigit() or c == '.')
NumericChars(s) == SelectSeq(s, LAMBDA c : IsDigit(c) \/ c = ".")

RECURSIVE DigitsValue(_)
DigitsValue(s) ==
    IF s = <<>> THEN 0
    ELSE DigitsValue(SubSeq(s, 1, Len(s) - 1)) * 10 + DigitValue(s[Len(s)])

RECURSIVE Pow10(_)
Pow10(k) == IF k = 0 THEN 1 ELSE 10 * Pow10(k - 1)

\* float(s) for a string of digits and dots: ValueError unless it has a digit
\* and at most one dot
Float(s) ==
    LET dots   == {i \in 1..Len(s) : s[i] = "."}
        digits == SelectSeq(s, IsDigit)
    IN  IF digits = <<>> \/ Cardinality(dots) > 1
        THEN [ok |-> FALSE, n |-> 0, d |-> 1]
        ELSE [ok |-> TRUE,
              n  |-> DigitsValue(digits),
              d  |-> IF dots = {} THEN 1
                     ELSE Pow10(Len(s) - (CHOOSE i \in dots : TRUE))]

\* lines 204-226
_check_answer(response, expected) ==
    LET response_lower == Strip(LowerChars(response))
        expected_lower == Strip(LowerChars(expected))
        resp_num == Float(NumericChars(response))
        exp_num  == Float(NumericChars(expected))
    IN  IF Contains(expected_lower, response_lower) THEN TRUE
        ELSE IF ~resp_num.ok \/ ~exp_num.ok THEN FALSE
        ELSE 100 * Abs(resp_num.n * exp_num.d - exp_num.n * resp_num.d)
                < resp_num.d * exp_num.d

\* time.time() - start_time, in whole units
Times == {1, 2}

Categories    == DOMAIN PATTERN_TESTS \cup {"unknown", ""}
\* system_prompt: None is the empty string here, both are false in "if system_prompt"
SystemPrompts == {"", "You are a helpful assistant."}

PtIdle == [status |-> "idle", caller |-> "", category |-> "",
           system_prompt |-> "", idx |-> 0, results |-> <<>>]

\* lines 144-148: an unknown category raises ValueError before the loop
PtStart(status, caller, test_category, system_prompt) ==
    [status |-> status, caller |-> caller, category |-> test_category,
     system_prompt |-> system_prompt,
     idx |-> IF status = "running" THEN 1 ELSE 0, results |-> <<>>]

PtCallReturnsEmpty(caller, test_category, system_prompt) ==
    /\ pt.status = "idle"
    /\ pt' = IF test_category \in DOMAIN PATTERN_TESTS
             THEN PtStart("running", caller, test_category, system_prompt)
             ELSE PtStart("returned", caller, test_category, system_prompt)

PtCall(caller, test_category, system_prompt) ==
    /\ pt.status = "idle"
    /\ pt' = IF test_category \in DOMAIN PATTERN_TESTS
             THEN PtStart("running", caller, test_category, system_prompt)
             ELSE PtStart("raised", caller, test_category, system_prompt)

run_pattern_test_call ==
    /\ te.status = "idle"
    /\ cmp_in = None
    /\ \E c \in Categories, sp \in SystemPrompts : PtCall("user", c, sp)
    /\ UNCHANGED <<model_calls, cmp_in, cmp_out, te>>

\* lines 150-186: one iteration of the loop over the prompts
run_pattern_test_prompt ==
    /\ pt.status = "running"
    /\ pt.idx <= Len(PATTERN_TESTS[pt.category].prompts)
    /\ \E response_time \in Times :
          LET test_info == PATTERN_TESTS[pt.category]
              prompt    == test_info.prompts[pt.idx]
              messages  == (IF pt.system_prompt # ""
                            THEN <<[role |-> "system", content |-> pt.system_prompt]>>
                            ELSE <<>>)
                           \o <<[role |-> "user", content |-> prompt.question]>>
              response  == _call_model("client", messages, "unknown")
              correct   == _check_answer(response, prompt.answer)
          IN  pt' = [pt EXCEPT
                  !.idx = pt.idx + 1,
                  !.results = Append(pt.results,
                      [domain |-> test_info.domain,
                       question |-> prompt.question,
                       expected_answer |-> prompt.answer,
                       model_answer |-> response,
                       correct |-> correct,
                       response_time |-> response_time,
                       difficulty |-> prompt.difficulty])]
    /\ model_calls' = model_calls + 1
    /\ UNCHANGED <<cmp_in, cmp_out, te>>

\* line 188
run_pattern_test_return ==
    /\ pt.status = "running"
    /\ pt.caller = "user"
    /\ pt.idx > Len(PATTERN_TESTS[pt.category].prompts)
    /\ pt' = [pt EXCEPT !.status = "returned"]
    /\ UNCHANGED <<model_calls, cmp_in, cmp_out, te>>

\* ---- compare_model_responses ----
Zero == [n |-> 0, d |-> 1, err |-> FALSE]

\* a / b: ZeroDivisionError when b = 0
Div(a, b) == IF b = 0 THEN [n |-> 0, d |-> 1, err |-> TRUE]
             ELSE [n |-> a, d |-> b, err |-> FALSE]

\* "a / b if b > 0 else 0" of lines 251, 254, 284 and 374
Unguarded(a, b) == Div(a, b)
Guarded(a, b) == IF b > 0 THEN Div(a, b) ELSE Zero

\* sum(1 for r in results if r.correct)
CountCorrect(results) == Cardinality({i \in 1..Len(results) : results[i].correct})

\* lines 249-258
ModelMetrics(results) ==
    LET correct == CountCorrect(results)
        total   == Len(results)
        avg_time == Guarded(SumSeq([i \in 1..total |-> results[i].response_time]),
                            total)
    IN  [accuracy |-> Guarded(correct, total),
         correct  |-> correct,
         total    |-> total,
         avg_response_time |-> avg_time]

\* lines 261-269: the counters of one model in one domain
DomainCounters(results, domain) ==
    LET mine == SelectSeq(results, LAMBDA r : r.domain = domain)
    IN  [correct |-> CountCorrect(mine), total |-> Len(mine)]

\* fractions with positive denominators
FracLess(x, y) == x.n * y.d < y.n * x.d

\* lines 248-290 for results_by_model given as the dictionary's items in order
compare_model_responses(results_by_model) ==
    LET names   == {results_by_model[i].model : i \in 1..Len(results_by_model)}
        of(m)   == results_by_model[CHOOSE i \in 1..Len(results_by_model) :
                                        results_by_model[i].model = m].results
        models  == [m \in names |-> ModelMetrics(of(m))]
        perf    == [dom \in {r.domain : r \in UNION {{of(m)[i] : i \in 1..Len(of(m))}
                                                      : m \in names}} |->
                      [m \in {x \in names : \E i \in 1..Len(of(x)) :
                                               of(x)[i].domain = dom} |->
                          DomainCounters(of(m), dom)]]
        accuracies == [dom \in DOMAIN perf |->
                          [m \in DOMAIN perf[dom] |->
                              Guarded(perf[dom][m].correct, perf[dom][m].total)]]
        raised  == \/ \E m \in names : models[m].accuracy.err
                                       \/ models[m].avg_response_time.err
                   \/ \E dom \in DOMAIN perf : \E m \in DOMAIN perf[dom] :
                          accuracies[dom][m].err
        \* line 287: max() keeps the first of equal accuracies, in item order
        best(dom) == results_by_model[CHOOSE i \in 1..Len(results_by_model) :
            LET m == results_by_model[i].model
            IN  /\ m \in DOMAIN perf[dom]
                /\ \A x \in DOMAIN perf[dom] :
                       ~FracLess(accuracies[dom][m], accuracies[dom][x])
                /\ \A j \in 1..(i - 1) :
                       results_by_model[j].model \in DOMAIN perf[dom]
                       => FracLess(accuracies[dom][results_by_model[j].model],
                                   accuracies[dom][m])].model
    IN  [raised |-> raised,
         models |-> models,
         domain_performance |-> perf,
         accuracies |-> accuracies,
         best_model |-> IF raised THEN <<>> ELSE [dom \in DOMAIN perf |-> best(dom)]]

\* ---- inputs of compare_model_responses ----
MaxResults == 2

\* the fields of a TestResult that compare_model_responses reads
GivenResults == [domain : {"Calendar", "Music"}, correct : BOOLEAN,
                 response_time : Times]

ResultLists == SeqsUpTo(GivenResults, MaxResults)

\* the items of results_by_model, in dictionary order
ResultsByModel ==
    {<<>>}
    \cup {<<[model |-> "a", results |-> r]>> : r \in ResultLists}
    \cup {<<[model |-> "a", results |-> r[1]], [model |-> "b", results |-> r[2]]>> :
             r \in {q \in ResultLists \X ResultLists :
                       Len(q[1]) + Len(q[2]) <= MaxResults}}

compare_call ==
    /\ pt.status = "idle"
    /\ te.status = "idle"
    /\ cmp_in = None
    /\ \E rbm \in ResultsByModel :
          /\ cmp_in' = [items |-> rbm]
          /\ cmp_out' = compare_model_responses(rbm)
    /\ UNCHANGED <<pt, model_calls, te>>

\* ---- run_tuning_experiment ----
\* lines 304-336: the keys of generate_tuning_prompts(), in order
TuningOrder == <<"neutral", "mathematical", "musical", "calendar", "geometric">>

TeIdle == [status |-> "idle", ti |-> 0, ci |-> 0, results |-> <<>>,
           tuning_effects |-> <<>>]

\* line 356-357
run_tuning_experiment_call ==
    /\ te.status = "idle"
    /\ pt.status = "idle"
    /\ cmp_in = None
    /\ te' = [te EXCEPT !.status = "running", !.ti = 1, !.ci = 1]
    /\ UNCHANGED <<pt, model_calls, cmp_in, cmp_out>>

\* lines 359-368: the call of run_pattern_test for the next prompt and category;
\* the prompt's name stands for its (non-empty) text
tuning_run_test ==
    /\ te.status = "running"
    /\ te.ti <= Len(TuningOrder)
    /\ PtCall("tuning", CategoryOrder[te.ci], TuningOrder[te.ti])
    /\ UNCHANGED <<model_calls, cmp_in, cmp_out, te>>

\* lines 370-377
TuningMetrics(test_results) ==
    LET correct == CountCorrect(test_results)
        total   == Len(test_results)
    IN  [accuracy |-> Guarded(correct, total), correct |-> correct,
         total |-> total]

\* run_pattern_test returns to run_tuning_experiment, which records the metrics
tuning_collect ==
    /\ te.status = "running"
    /\ pt.status = "running"
    /\ pt.caller = "tuning"
    /\ pt.idx > Len(PATTERN_TESTS[pt.category].prompts)
    /\ te' = [te EXCEPT
           !.results = (<<TuningOrder[te.ti], CategoryOrder[te.ci]>>
                           :> TuningMetrics(pt.results)) @@ te.results,
           !.ci = IF te.ci = Len(CategoryOrder) THEN 1 ELSE te.ci + 1,
           !.ti = IF te.ci = Len(CategoryOrder) THEN te.ti + 1 ELSE te.ti]
    /\ pt' = PtIdle
    /\ UNCHANGED <<model_calls, cmp_in, cmp_out>>

\* lines 387-402: per tuned prompt, the categories that beat the neutral prompt
TuningEffects(results) ==
    [i \in 2..Len(TuningOrder) |->
        SelectSeq(CategoryOrder,
                  LAMBDA cat :
                      FracLess(IF <<"neutral", cat>> \in DOMAIN results
                               THEN results[<<"neutral", cat>>].accuracy ELSE Zero,
                               results[<<TuningOrder[i], cat>>].accuracy))]

\* lines 379-411
tuning_analyze ==
    /\ te.status = "running"
    /\ te.ti > Len(TuningOrder)
    /\ pt.status = "idle"
    /\ te' = [te EXCEPT !.status = "returned",
                        !.tuning_effects = TuningEffects(te.results)]
    /\ UNCHANGED <<pt, model_calls, cmp_in, cmp_out>>

PatternIdle ==
    /\ pt = PtIdle
    /\ model_calls = 0
    /\ cmp_in = None
    /\ cmp_out = None
    /\ te = TeIdle

(***************************************************************************)
(* scripts/statistics/prevalence_analysis.py                               *)
(*                                                                         *)
(* prevalence_confidence_intervals with the default confidence 0.95.       *)
(* Values are in thousandths, computed with truncating integer arithmetic  *)
(* and z = 1.96.                                                           *)
(***************************************************************************)
\* the integer square root
Isqrt(x) ==
    LET RECURSIVE Between(_, _)
        \* the root is at least lo and less than hi
        Between(lo, hi) ==
            IF hi - lo = 1 THEN lo
            ELSE LET mid == (lo + hi) \div 2
                 IN  IF mid * mid <= x THEN Between(mid, hi) ELSE Between(lo, mid)
    IN  Between(0, 46341)

\* line 209: Python's / on integers raises ZeroDivisionError for a zero divisor
PHat(n_savants, n_total) == Div(n_savants, n_total)

\* lines 209-230
prevalence_confidence_intervals(n_savants, n_total) ==
    LET p_hat == PHat(n_savants, n_total)
        unit  == 1000
        z     == 1960
        z2    == 3842
        n     == IF n_total = 0 THEN 1 ELSE n_total
        center == ((2 * n_savants * unit + z2) * unit) \div (2 * (n * unit + z2))
        \* (p(1-p) + z^2/4n) / n, in units of 10^-6
        radicand == ((4 * n_savants * (n - n_savants) * unit + z2 * n) * unit)
                       \div (4 * n * n * n)
        isnan  == 4 * n_savants * (n - n_savants) * unit + z2 * n < 0
        margin == IF isnan THEN 0
                  ELSE (z * Isqrt(radicand) * n) \div (n * unit + z2)
    IN  IF p_hat.err
        THEN [raised |-> "ZeroDivisionError"]
        ELSE [raised |-> "",
              method |-> "Wilson Score Interval",
              point_estimate |-> [n |-> p_hat.n, d |-> p_hat.d],
              \* max(0, nan) is 0 and min(1, nan) is 1
              ci_lower |-> IF isnan THEN 0 ELSE Max(0, center - margin),
              ci_upper |-> IF isnan THEN unit ELSE Min(unit, center + margin),
              sample_size |-> n_total,
              n_savants |-> n_savants]

\* ---- inputs ----
MaxCount == 10

PrevIdle == ci_in = None /\ ci_out = None

PrevInit ==
    /\ ci_in \in [n_savants : 0..MaxCount, n_total : 0..MaxCount]
    /\ ci_out = None

Prev ==
    /\ ci_out = None
    /\ ci_out' = prevalence_confidence_intervals(ci_in.n_savants, ci_in.n_total)
    /\ UNCHANGED ci_in

(***************************************************************************)
(* The module-level tables as objects                                      *)
(*                                                                         *)
(* heap.module binds each module-level name to its object and heap.frame   *)
(* holds the objects the last call allocated.  A reference is the path of  *)
(* an object in heap; a value that holds [ref |-> path] shares that object.*)
(* Tables of which no reference leaves a function (PATTERN_TESTS,          *)
(* SCORING_DIMENSIONS) are read through their literal.                     *)
(***************************************************************************)
\* pathway_enrichment.py lines 26-109: go_terms and fnc_role of each pathway,
\* pathway of each candidate gene
PathwayTablesAtLoad ==
    [FNC_PATHWAY_CATEGORIES |->
        [synaptic_transmission |->
            [go_terms |-> <<"GO:0007268", "GO:0007269", "GO:0050804">>,
             fnc_role |-> "Node signal processing"],
         ion_channels |->
            [go_terms |-> <<"GO:0005216", "GO:0006811", "GO:0034765">>,
             fnc_role |-> "Node tuning frequency"],
         myelination |->
            [go_terms |-> <<"GO:0042552", "GO:0008366", "GO:0007272">>,
             fnc_role |-> "Node bandwidth"],
         neuronal_development |->
            [go_terms |-> <<"GO:0048666", "GO:0007399", "GO:0048699">>,
             fnc_role |-> "Node architecture"],
         excitation_inhibition |->
            [go_terms |-> <<"GO:0051932", "GO:0051931", "GO:0007214">>,
             fnc_role |-> "Node filtering strength"],
         sensory_processing |->
            [go_terms |-> <<"GO:0050954", "GO:0007605", "GO:0007601">>,
             fnc_role |-> "Field channel reception"]],
     SAVANT_CANDIDATE_GENES |->
        ("CACNA1C" :> [pathway |-> "ion_channels"] @@
         "SHANK3"  :> [pathway |-> "synaptic_transmission"] @@
         "NRXN1"   :> [pathway |-> "synaptic_transmission"] @@
         "SCN2A"   :> [pathway |-> "ion_channels"] @@
         "CNTNAP2" :> [pathway |-> "myelination"] @@
         "MBP"     :> [pathway |-> "myelination"] @@
         "GABRA1"  :> [pathway |-> "excitation_inhibition"] @@
         "GRIN2B"  :> [pathway |-> "synaptic_transmission"])]

\* the iteration order of SAVANT_CANDIDATE_GENES
CandidateOrder == <<"CACNA1C", "SHANK3", "NRXN1", "SCN2A", "CNTNAP2", "MBP",
                    "GABRA1", "GRIN2B">>

\* effect_sizes.py lines 22-73: n, and the means and deviations in tenths
TmsStudiesAtLoad ==
    <<[study |-> "Snyder & Mitchell (1999)", n |-> 12,
       pre_mean |-> 25, pre_sd |-> 12, post_mean |-> 58, post_sd |-> 15],
      [study |-> "Snyder et al. (2003)", n |-> 12,
       pre_mean |-> 450, pre_sd |-> 120, post_mean |-> 650, post_sd |-> 150],
      [study |-> "Young et al. (2004)", n |-> 8,
       pre_mean |-> 620, pre_sd |-> 180, post_mean |-> 780, post_sd |-> 140],
      [study |-> "Chi & Snyder (2011)", n |-> 33,
       pre_mean |-> 200, pre_sd |-> 250, post_mean |-> 600, post_sd |-> 300],
      [study |-> "Chi & Snyder (2012)", n |-> 22,
       pre_mean |-> 50, pre_sd |-> 100, post_mean |-> 400, post_sd |-> 250]>>

\* domain_radar_chart.py lines 22-53: the prevalence of each domain, in hundredths
DomainDataAtLoad ==
    <<[domain |-> "Music", prevalence |-> 32],
      [domain |-> "Art", prevalence |-> 29],
      [domain |-> "Calendar", prevalence |-> 18],
      [domain |-> "Mathematics", prevalence |-> 12],
      [domain |-> "Mechanical", prevalence |-> 6],
      [domain |-> "Language", prevalence |-> 3]>>

\* case_timeline.py lines 23-84: the domain and the number of key events per case
CaseTimelinesAtLoad ==
    "Jason Padgett"   :> [domain |-> "Mathematical/Geometric", key_events |-> 5] @@
    "Derek Amato"     :> [domain |-> "Musical", key_events |-> 5] @@
    "Orlando Serrell" :> [domain |-> "Calendar/Autobiographical", key_events |-> 5] @@
    "Tony Cicoria"    :> [domain |-> "Musical composition", key_events |-> 5]

\* the module-level bindings once every module is imported
LoadTime ==
    [NODE_TUNING_GENES      |-> NodeTuningGenesAtLoad,
     FNC_PATHWAY_CATEGORIES |-> PathwayTablesAtLoad.FNC_PATHWAY_CATEGORIES,
     SAVANT_CANDIDATE_GENES |-> PathwayTablesAtLoad.SAVANT_CANDIDATE_GENES,
     TMS_STUDIES            |-> TmsStudiesAtLoad,
     DOMAIN_DATA            |-> DomainDataAtLoad,
     CASE_TIMELINES         |-> CaseTimelinesAtLoad,
     PATTERN_TESTS          |-> PATTERN_TESTS,
     SCORING_DIMENSIONS     |-> SCORING_DIMENSIONS]

FNC_PATHWAY_CATEGORIES == heap.module.FNC_PATHWAY_CATEGORIES
SAVANT_CANDIDATE_GENES == heap.module.SAVANT_CANDIDATE_GENES
TMS_STUDIES            == heap.module.TMS_STUDIES

\* the object at a path
RECURSIVE At(_, _)
At(obj, path) == IF path = <<>> THEN obj ELSE At(obj[Head(path)], Tail(path))

\* the heap after binding the last key of a path to v
RECURSIVE Put(_, _, _)
Put(obj, path, v) ==
    IF Len(path) = 1 THEN (Head(path) :> v) @@ obj
    ELSE (Head(path) :> Put(obj[Head(path)], Tail(path), v)) @@ obj

NoFrame == [k \in {} |-> None]

TablesIdle ==
    /\ heap = [module |-> LoadTime, frame |-> NoFrame]
    /\ handed = None
    /\ calls = [n |-> 0, log |-> <<>>]

\* ---- calls ----
\* the number of calls of the functions that return result records
MaxCalls == 2

\* what a call hands to its caller
Handed(fn, a, value) == [fn |-> fn, args |-> a, value |-> value]

\* the log keeps the first call and every later call that repeats the function
\* and the arguments of a call it holds
Logged(fn, a, result) ==
    /\ calls.n < MaxCalls
    /\ calls' =
             [n   |-> calls.n + 1,
              log |-> IF calls.log = <<>>
                         \/ \E i \in 1..Len(calls.log) :
                                calls.log[i].fn = fn /\ calls.log[i].args = a
                      THEN Append(calls.log, [fn |-> fn, args |-> a, result |-> result])
                      ELSE calls.log]

\* fnc_gene_scoring.py lines 253-260: the table itself is returned
node_tuning_genes ==
    /\ handed' = Handed("node_tuning_genes", <<>>,
                         [ref |-> <<"module", "NODE_TUNING_GENES">>])
    /\ heap' = [heap EXCEPT !.frame = NoFrame]
    /\ UNCHANGED calls

\* run_analysis.py lines 158-162 and fnc_gene_scoring.py lines 308-314
demo_variants(script) ==
    IF script = "run_analysis"
    THEN <<[gene |-> "CACNA1C", impact |-> "high"],
           [gene |-> "SHANK3", impact |-> "moderate"],
           [gene |-> "GABRA1", impact |-> "moderate"]>>
    ELSE <<[gene |-> "CACNA1C", impact |-> "high"],
           [gene |-> "SHANK3", impact |-> "moderate"],
           [gene |-> "GABRA1", impact |-> "moderate"],
           [gene |-> "MBP", impact |-> "low"],
           [gene |-> "SCN2A", impact |-> "moderate"]>>

\* fnc_gene_scoring.py lines 134-192, called with normalize left at its default
calculate_fnc_scores_keeping_scores ==
    \E variant_genes \in {demo_variants("run_analysis"),
                          demo_variants("fnc_gene_scoring"),
                          <<[gene |-> "cacna1c", impact |-> "low"]>>,
                          <<[gene |-> "XYZ", impact |-> "high"]>>} :
        LET kept == IF calls.log # <<>> /\ calls.log[1].fn = "calculate_fnc_scores"
                    THEN calls.log[1].args ELSE <<>>
            result == calculate_fnc_scores(kept \o variant_genes, TRUE)
        IN  /\ handed' = Handed("calculate_fnc_scores", variant_genes, result)
            /\ heap' = [heap EXCEPT !.frame = NoFrame]
            /\ Logged("calculate_fnc_scores", variant_genes, result)
calculate_fnc_scores_call ==
    \E variant_genes \in {demo_variants("run_analysis"),
                          demo_variants("fnc_gene_scoring"),
                          <<[gene |-> "cacna1c", impact |-> "low"]>>,
                          <<[gene |-> "XYZ", impact |-> "high"]>>} :
        LET result == calculate_fnc_scores(variant_genes, TRUE)
        IN  /\ handed' = Handed("calculate_fnc_scores", variant_genes, result)
            /\ heap' = [heap EXCEPT !.frame = NoFrame]
            /\ Logged("calculate_fnc_scores", variant_genes, result)

\* scipy.stats.hypergeom: 1 - cdf(k - 1, M, n, N), the probability of k or more
\* of the n marked genes among N draws from M, in units of 10^-5
HypergeomSf(k, M, n, N) ==
    LET unit == 100000
        RECURSIVE P0(_, _)
        P0(j, p) == IF j = N THEN p ELSE P0(j + 1, (p * (M - n - j)) \div (M - j))
        RECURSIVE Below(_, _, _)
        \* the sum of P(X = i), ..., P(X = k - 1), given p = P(X = i)
        Below(i, p, acc) ==
            IF i = k THEN acc
            ELSE Below(i + 1,
                       (p * ((n - i) * (N - i))) \div ((i + 1) * (M - n - N + i + 1)),
                       acc + p)
    IN  unit - Below(0, P0(0, unit), 0)

\* every candidate gene of the input counted for every pathway
run_pathway_enrichment_any_pathway(gene_list, background_size, significance_threshold) ==
    LET gene_set == {Upper(gene_list[i]) : i \in 1..Len(gene_list)}
        pathway_genes(pathway_name) ==
            SelectSeq(CandidateOrder,
                      LAMBDA gene :
                          /\ gene \in DOMAIN SAVANT_CANDIDATE_GENES
                          /\ Upper(gene) \in gene_set)
        n(pathway_name) ==
            Cardinality({g \in DOMAIN SAVANT_CANDIDATE_GENES :
                            SAVANT_CANDIDATE_GENES[g].pathway = pathway_name}) * 100
        p_value(pathway_name) ==
            HypergeomSf(Len(pathway_genes(pathway_name)), background_size,
                        n(pathway_name), Len(gene_list))
        enriched == {pathway_name \in DOMAIN FNC_PATHWAY_CATEGORIES :
                        /\ pathway_genes(pathway_name) # <<>>
                        /\ p_value(pathway_name) < significance_threshold}
    IN  [pathway_name \in enriched |->
            [pathway     |-> pathway_name,
             go_terms    |-> [ref |-> <<"module", "FNC_PATHWAY_CATEGORIES",
                                        pathway_name, "go_terms">>],
             genes_found |-> pathway_genes(pathway_name),
             p_value     |-> p_value(pathway_name),
             fold_enrichment |->
                 [n |-> Len(pathway_genes(pathway_name)) * background_size,
                  d |-> n(pathway_name) * Len(gene_list)],
             fnc_interpretation |-> FNC_PATHWAY_CATEGORIES[pathway_name].fnc_role]]

\* pathway_enrichment.py lines 123-182; go_terms is the list of the table
run_pathway_enrichment(gene_list, background_size, significance_threshold) ==
    LET gene_set == {Upper(gene_list[i]) : i \in 1..Len(gene_list)}
        pathway_genes(pathway_name) ==
            SelectSeq(CandidateOrder,
                      LAMBDA gene :
                          /\ gene \in DOMAIN SAVANT_CANDIDATE_GENES
                          /\ SAVANT_CANDIDATE_GENES[gene].pathway = pathway_name
                          /\ Upper(gene) \in gene_set)
        n(pathway_name) ==
            Cardinality({g \in DOMAIN SAVANT_CANDIDATE_GENES :
                            SAVANT_CANDIDATE_GENES[g].pathway = pathway_name}) * 100
        p_value(pathway_name) ==
            HypergeomSf(Len(pathway_genes(pathway_name)), background_size,
                        n(pathway_name), Len(gene_list))
        enriched == {pathway_name \in DOMAIN FNC_PATHWAY_CATEGORIES :
                        /\ pathway_genes(pathway_name) # <<>>
                        /\ p_value(pathway_name) < significance_threshold}
    IN  [pathway_name \in enriched |->
            [pathway     |-> pathway_name,
             go_terms    |-> [ref |-> <<"module", "FNC_PATHWAY_CATEGORIES",
                                        pathway_name, "go_terms">>],
             genes_found |-> pathway_genes(pathway_name),
             p_value     |-> p_value(pathway_name),
             fold_enrichment |->
                 [n |-> Len(pathway_genes(pathway_name)) * background_size,
                  d |-> n(pathway_name) * Len(gene_list)],
             fnc_interpretation |-> FNC_PATHWAY_CATEGORIES[pathway_name].fnc_role]]

\* the fields of the records as a reader of them sees them
Fields(h, results) ==
    [pathway_name \in DOMAIN results |->
        [results[pathway_name] EXCEPT !.go_terms = At(h, @.ref)]]

\* a demo list naming GRIN2A, which SAVANT_CANDIDATE_GENES does not hold
demo_genes_with_GRIN2A ==
    <<"CACNA1C", "SHANK3", "GABRA1", "SCN2A", "CNTNAP2", "MBP", "GRIN2A">>

\* run_analysis.py line 142
demo_genes == <<"CACNA1C", "SHANK3", "GABRA1", "SCN2A", "CNTNAP2", "MBP", "GRIN2B">>

\* called with background_size and significance_threshold left at their
\* defaults, 20000 and 0.05
run_pathway_enrichment_call ==
    \E gene_list \in {demo_genes, <<"cacna1c", "SCN2A">>, <<"GABRA1">>,
                      <<"XYZ">>, <<>>} :
        LET results == run_pathway_enrichment(gene_list, 20000, 5000)
        IN  /\ handed' = Handed("run_pathway_enrichment", gene_list, results)
            /\ heap' = [heap EXCEPT !.frame = NoFrame]
            /\ Logged("run_pathway_enrichment", gene_list, Fields(heap, results))

\* ---- effect_sizes.py ----
\* lines 86-147 for means and deviations in tenths and the correlation in
\* tenths: d, its interval and its standard error in thousandths
cohens_d_paired(pre_mean, post_mean, pre_sd, post_sd, n, correlation) ==
    LET mean_diff == post_mean - pre_mean
        \* in thousandths of the unit of the means
        sd_pooled == Isqrt(((pre_sd * pre_sd + post_sd * post_sd) * 10000) \div 2)
        d    == (mean_diff * 100000) \div sd_pooled
        se_d == Isqrt((2 * (10 - correlation) * 100000) \div n + (d * d) \div (2 * n))
    IN  [cohens_d |-> d,
         ci_lower |-> d - (1960 * se_d) \div 1000,
         ci_upper |-> d + (1960 * se_d) \div 1000,
         magnitude |-> IF Abs(d) < 200 THEN "negligible"
                       ELSE IF Abs(d) < 500 THEN "small"
                       ELSE IF Abs(d) < 800 THEN "medium"
                       ELSE "large"]

\* lines 162-207: the effect of every study and the meta-analytic summary
tms_enhancement_effects ==
    LET effect(i) == cohens_d_paired(TMS_STUDIES[i].pre_mean, TMS_STUDIES[i].post_mean,
                                     TMS_STUDIES[i].pre_sd, TMS_STUDIES[i].post_sd,
                                     TMS_STUDIES[i].n, 5)
        all_ds == [i \in 1..Len(TMS_STUDIES) |-> effect(i).cohens_d]
        all_ns == [i \in 1..Len(TMS_STUDIES) |-> TMS_STUDIES[i].n]
        \* np.average(all_ds, weights=all_ns)
        weighted_d == SumSeq([i \in 1..Len(all_ds) |-> all_ds[i] * all_ns[i]])
                         \div SumSeq(all_ns)
    IN  [studies |-> [i \in 1..Len(TMS_STUDIES) |->
                         [study |-> TMS_STUDIES[i].study, n |-> TMS_STUDIES[i].n,
                          cohens_d |-> effect(i).cohens_d,
                          ci_95 |-> <<effect(i).ci_lower, effect(i).ci_upper>>,
                          magnitude |-> effect(i).magnitude]],
         meta_analysis |->
            [weighted_mean_d |-> weighted_d,
             k_studies |-> Len(TMS_STUDIES),
             total_n |-> SumSeq(all_ns),
             magnitude |-> IF weighted_d >= 800 THEN "large" ELSE "medium"]]

tms_enhancement_effects_call ==
    /\ handed' = Handed("tms_enhancement_effects", <<>>, tms_enhancement_effects)
    /\ heap' = [heap EXCEPT !.frame = NoFrame]
    /\ UNCHANGED calls

\* line 244: the dictionary the name lesion_data is bound to
LesionDataShared == <<"module", "lesion_data">>
LesionDataRef == <<"frame", "lesion_data">>

\* lines 244-316: the dictionary is built by the call, lines 274-275 add a
\* proportion to each of its entries, and the result holds the dictionary
lesion_effect_analysis ==
    LET literal == [left_temporal       |-> [n_cases |-> 15],
                    left_frontotemporal |-> [n_cases |-> 8],
                    left_parietal       |-> [n_cases |-> 5],
                    right_hemisphere    |-> [n_cases |-> 2]]
        h1 == Put([heap EXCEPT !.frame = NoFrame], LesionDataRef, literal)
        lesion_data == At(h1, LesionDataRef)
        total_cases == lesion_data.left_temporal.n_cases
                       + lesion_data.left_frontotemporal.n_cases
                       + lesion_data.left_parietal.n_cases
                       + lesion_data.right_hemisphere.n_cases
        h2 == Put(h1, LesionDataRef,
                  [location \in DOMAIN lesion_data |->
                      [n_cases    |-> lesion_data[location].n_cases,
                       proportion |-> [n |-> lesion_data[location].n_cases,
                                       d |-> total_cases]]])
        left_cases == total_cases - lesion_data.right_hemisphere.n_cases
    IN  /\ heap' = h2
        /\ handed' = Handed("lesion_effect_analysis", <<>>,
                     [lesion_data |-> [ref |-> LesionDataRef],
                      lateralization |->
                         [left_hemisphere |-> left_cases,
                          right_hemisphere |-> total_cases - left_cases,
                          left_proportion |-> [n |-> left_cases, d |-> total_cases]]])
        /\ UNCHANGED calls

\* ---- visualization ----
\* domain_radar_chart.py lines 75-89, called without an output path: values is
\* a new list, and += extends that list in place
create_domain_radar ==
    LET DOMAIN_DATA == heap.module.DOMAIN_DATA
        values == [i \in 1..Len(DOMAIN_DATA) |-> DOMAIN_DATA[i].prevalence]
        h1 == Put([heap EXCEPT !.frame = NoFrame], <<"frame", "values">>, values)
        h2 == Put(h1, <<"frame", "values">>,
                  At(h1, <<"frame", "values">>)
                     \o SubSeq(At(h1, <<"frame", "values">>), 1, 1))
    IN  /\ heap' = h2
        /\ handed' = Handed("create_domain_radar", <<>>,
                     [figure |-> "radar",
                      points |-> Len(At(h2, <<"frame", "values">>))])
        /\ UNCHANGED calls

\* case_timeline.py lines 103-112, called without an output path: cases is the
\* table itself, or a new dictionary that holds one entry of it
create_case_timeline ==
    \E case_name \in {"", "Jason Padgett", "Kim Peek"} :
        LET CASE_TIMELINES == heap.module.CASE_TIMELINES
            cases == IF case_name = "" THEN [ref |-> <<"module", "CASE_TIMELINES">>]
                     ELSE [ref |-> <<"module", "CASE_TIMELINES", case_name>>]
            n_cases == IF case_name = "" THEN Cardinality(DOMAIN CASE_TIMELINES) ELSE 1
        IN  /\ IF case_name # "" /\ case_name \notin DOMAIN CASE_TIMELINES
               THEN /\ handed' = Handed("create_case_timeline", case_name,
                                        [raised |-> "KeyError"])
                    /\ heap' = [heap EXCEPT !.frame = NoFrame]
               ELSE /\ handed' = Handed("create_case_timeline", case_name,
                                        [figure |-> "timeline", axes |-> n_cases])
                    /\ heap' = [heap EXCEPT !.frame = [name \in {"cases"} |-> cases]]
            /\ UNCHANGED calls

\* ---- run_pattern_test as one of the calls ----
pattern_test_enter ==
    /\ calls.n < MaxCalls
    /\ \E c \in {"prime_recognition", "unknown"}, sp \in SystemPrompts :
           PtCall("user", c, sp)
    /\ calls' = [calls EXCEPT !.n = calls.n + 1]
    /\ UNCHANGED <<model_calls, cmp_in, cmp_out, te, heap, handed>>

\* run_pattern_tests.py lines 145 and 188: the call raises or returns its list
pattern_test_leave ==
    /\ pt.caller = "user"
    /\ \/ pt.status = "raised"
       \/ pt.status = "running" /\ pt.idx > Len(PATTERN_TESTS[pt.category].prompts)
    /\ LET a == <<pt.category, pt.system_prompt>>
           value == IF pt.status = "raised" THEN <<[raised |-> "ValueError"]>>
                    ELSE pt.results
       IN  /\ handed' = Handed("run_pattern_test", a, value)
           /\ IF pt.status = "raised" THEN UNCHANGED calls
              ELSE calls' = [calls EXCEPT !.log =
                      IF calls.log = <<>>
                         \/ \E i \in 1..Len(calls.log) :
                                /\ calls.log[i].fn = "run_pattern_test"
                                /\ calls.log[i].args = a
                      THEN Append(calls.log, [fn |-> "run_pattern_test", args |-> a,
                                              result |-> value])
                      ELSE calls.log]
    /\ pt' = PtIdle
    /\ UNCHANGED <<model_calls, cmp_in, cmp_out, te, heap>>

\* ---- the caller ----
\* a caller writes once through a reference it was handed: it sets an entry
\* of the dictionary node_tuning_genes() returned, or appends to the go_terms
\* list of an EnrichmentResult
caller_modify ==
    /\ handed # None
    /\ heap.module = LoadTime
    /\ \/ /\ handed.fn = "node_tuning_genes"
          /\ heap' = Put(heap, handed.value.ref \o <<"frequency", "CACNA1C">>, 10)
       \/ /\ handed.fn = "run_pathway_enrichment"
          /\ \E pathway_name \in DOMAIN handed.value :
                LET go_terms == handed.value[pathway_name].go_terms.ref
                IN  heap' = Put(heap, go_terms,
                                   Append(At(heap, go_terms), "GO:0000000"))
    /\ UNCHANGED <<handed, calls>>

notPatObj == <<mainVars, scoreVars, fncVars, prevVars>>

\* ---- run_pattern_test with a client that answers ----
\* what the call of line 161 can do once _call_model reaches a client: return
\* a string, return None, raise an Exception, or raise outside the Exception
\* hierarchy (KeyboardInterrupt during the request); response is the string
\* returned, or str(e) of the exception raised
ModelCallOutcomes ==
    {[kind |-> "returns", response |-> Placeholder, error |-> ""],
     [kind |-> "returns", response |-> <<"Y", "e", "s">>, error |-> ""],
     [kind |-> "returns None", response |-> <<>>, error |-> ""],
     [kind |-> "raises", response |-> <<"t", "i", "m", "e", "d">>,
      error |-> "TimeoutError"],
     [kind |-> "raises", response |-> <<>>, error |-> "KeyboardInterrupt"]}

\* an except clause that lets AttributeError pass
ExceptTimeoutError(error) == error = "TimeoutError"

\* line 177, "except Exception": the classes that derive from Exception
ExceptException(error) == error \in {"TimeoutError", "AttributeError"}

\* lines 150-186, one iteration: _check_answer calls response.lower(), which
\* raises AttributeError for a response that is not a string
run_pattern_test_prompt_client ==
    /\ pt.status = "running"
    /\ pt.idx <= Len(PATTERN_TESTS[pt.category].prompts)
    /\ \E outcome \in ModelCallOutcomes, response_time \in Times :
          LET test_info == PATTERN_TESTS[pt.category]
              prompt    == test_info.prompts[pt.idx]
              messages  == (IF pt.system_prompt # ""
                            THEN <<[role |-> "system", content |-> pt.system_prompt]>>
                            ELSE <<>>)
                           \o <<[role |-> "user", content |-> prompt.question]>>
              e == IF outcome.kind = "raises"
                   THEN [error |-> outcome.error, text |-> outcome.response]
                   ELSE IF outcome.kind = "returns None"
                   THEN [error |-> "AttributeError", text |-> <<"l", "o", "w", "e", "r">>]
                   ELSE None
              result(model_answer, correct) ==
                  [domain |-> test_info.domain,
                   question |-> prompt.question,
                   expected_answer |-> prompt.answer,
                   model_answer |-> model_answer,
                   correct |-> correct,
                   response_time |-> response_time,
                   difficulty |-> prompt.difficulty]
          IN  /\ handed' = Handed("_call_model", messages, outcome)
              /\ pt' = IF e = None
                       THEN [pt EXCEPT
                               !.idx = pt.idx + 1,
                               !.results = Append(pt.results,
                                   result(outcome.response,
                                          _check_answer(outcome.response, prompt.answer)))]
                       ELSE IF ExceptException(e.error)
                       THEN [pt EXCEPT
                               !.idx = pt.idx + 1,
                               !.results = Append(pt.results,
                                   result(<<"E", "R", "R", "O", "R", ":", " ">> \o e.text,
                                          FALSE))]
                       ELSE [pt EXCEPT !.status = "raised", !.results = <<>>]
    /\ model_calls' = model_calls + 1
    /\ UNCHANGED <<cmp_in, cmp_out, te, heap, calls>>

\* ---- _check_answer on its own ----
MaxResponse == 3
MaxExpected == 2

\* run_pattern_tests.py lines 204-226 for responses and expected answers made
\* of the characters 4, 2, "." and the blank
check_answer_call ==
    /\ \E response \in SeqsUpTo({"4", "2", ".", " "}, MaxResponse),
          expected \in SeqsUpTo({"4", "2", ".", " "}, MaxExpected) :
          handed' = Handed("_check_answer", <<response, expected>>,
                           _check_answer(response, expected))
    /\ UNCHANGED <<heap, calls>>

\* ---- prevalence_analysis.py: domain_specificity_test ----
\* lines 41-48: the proportion of each domain, in hundredths, in dictionary order
DOMAIN_DISTRIBUTION ==
    <<[domain |-> "Music", proportion |-> 32],
      [domain |-> "Art", proportion |-> 29],
      [domain |-> "Calendar", proportion |-> 18],
      [domain |-> "Mathematics", proportion |-> 12],
      [domain |-> "Mechanical", proportion |-> 6],
      [domain |-> "Language", proportion |-> 3]>>

\* a labelling with the threshold at one standard residual
StatusBeyondOne(res) ==
    IF res > 1000 THEN "Over-represented"
    ELSE IF res < -1000 THEN "Under-represented"
    ELSE "Expected range"

\* lines 157-162 for a residual in thousandths
Status(res) ==
    IF res > 1960 THEN "Over-represented"
    ELSE IF res < -1960 THEN "Under-represented"
    ELSE "Expected range"

\* lines 137-180 for a table of proportions in hundredths: N = 1000, so a
\* count is ten times the proportion and every expected count is N / n.
\* (observed - expected) / sqrt(expected) = (n * observed - N) / sqrt(N * n),
\* the root taken in hundredths and the residual in thousandths.
domain_specificity_test(distribution) ==
    LET N == 1000
        n_categories == Len(distribution)
        root == Isqrt(N * n_categories * 10000)
        res(i) == ((n_categories * distribution[i].proportion * 10 - N) * 100000)
                      \div root
    IN  [df |-> n_categories - 1,
         domain_analysis |->
            [i \in 1..n_categories |->
                [domain |-> distribution[i].domain,
                 observed |-> distribution[i].proportion,
                 std_residual |-> res(i),
                 status |-> Status(res(i))]],
         interpretation |-> "Music and Art are significantly over-represented."]

\* the built-in table, and tables of the same six domains whose proportions
\* add up to one, as scipy's chisquare requires of its two arguments
domain_specificity_test_call ==
    /\ handed = None
    /\ \E p \in [1..5 -> {6, 19, 20, 29}] \cup
                 {[i \in 1..5 |-> DOMAIN_DISTRIBUTION[i].proportion]} :
          LET rest == 100 - (p[1] + p[2] + p[3] + p[4] + p[5])
              distribution ==
                  [i \in 1..6 |->
                      [domain |-> DOMAIN_DISTRIBUTION[i].domain,
                       proportion |-> IF i = 6 THEN rest ELSE p[i]]]
          IN  /\ rest >= 0
              /\ handed' = Handed("domain_specificity_test", distribution,
                                  domain_specificity_test(distribution))
    /\ UNCHANGED <<heap, calls>>

\* ---- variant_annotation.py: annotate_variant ----
\* lines 18-44 in dictionary order; the "mechanism" texts are not read
FNC_VARIANT_CATEGORIES ==
    <<[category |-> "tuning_frequency",
       genes |-> <<"CACNA1C", "CACNA1D", "SCN1A", "SCN2A", "SCN8A", "KCNQ2", "KCNQ3">>,
       fnc_effect |-> "Modified Node oscillation frequency"],
      [category |-> "filter_strength",
       genes |-> <<"GABRA1", "GABRB2", "GABRG2", "GRIN2A", "GRIN2B">>,
       fnc_effect |-> "Changed filtering threshold at Node"],
      [category |-> "signal_integration",
       genes |-> <<"SHANK3", "SHANK2", "NRXN1", "NLGN3", "NLGN4">>,
       fnc_effect |-> "Modified integration of Field signals"],
      [category |-> "bandwidth",
       genes |-> <<"MBP", "PLP1", "CNP", "CNTNAP2", "CNTN1">>,
       fnc_effect |-> "Changed Node bandwidth/capacity"],
      [category |-> "pattern_recognition",
       genes |-> <<"CNTNAP2", "FOXP2", "ATP2C2", "CMIP">>,
       fnc_effect |-> "Altered Field pattern extraction"]>>

\* the loop of lines 103-108 without its break
annotate_variant_without_break(variant, gene) ==
    LET RECURSIVE Loop(_, _)
        Loop(i, found) ==
            IF i > Len(FNC_VARIANT_CATEGORIES) THEN found
            ELSE LET info == FNC_VARIANT_CATEGORIES[i]
                 IN  IF \E k \in 1..Len(info.genes) : Upper(info.genes[k]) = Upper(gene)
                     THEN Loop(i + 1, [fnc_category |-> info.category,
                                       fnc_interpretation |-> info.fnc_effect])
                     ELSE Loop(i + 1, found)
        nothing == [fnc_category |-> "", fnc_interpretation |-> ""]
        found == IF gene # "" THEN Loop(1, nothing) ELSE nothing
    IN  [gene |-> IF gene # "" THEN gene ELSE "Unknown",
         gnomad_af |-> IF "gnomad_af" \in DOMAIN variant THEN variant.gnomad_af ELSE <<>>,
         cadd_score |-> IF "cadd_score" \in DOMAIN variant THEN variant.cadd_score ELSE <<>>,
         fnc_category |-> found.fnc_category,
         fnc_interpretation |-> found.fnc_interpretation]

\* lines 89-123: gene None is "", which "if gene" and "gene or" treat alike;
\* fnc_category and fnc_interpretation None are ""
annotate_variant(variant, gene) ==
    LET RECURSIVE Loop(_, _)
        Loop(i, found) ==
            IF i > Len(FNC_VARIANT_CATEGORIES) THEN found
            ELSE LET info == FNC_VARIANT_CATEGORIES[i]
                 IN  IF \E k \in 1..Len(info.genes) : Upper(info.genes[k]) = Upper(gene)
                     THEN [fnc_category |-> info.category,
                           fnc_interpretation |-> info.fnc_effect]
                     ELSE Loop(i + 1, found)
        nothing == [fnc_category |-> "", fnc_interpretation |-> ""]
        found == IF gene # "" THEN Loop(1, nothing) ELSE nothing
    IN  [gene |-> IF gene # "" THEN gene ELSE "Unknown",
         gnomad_af |-> IF "gnomad_af" \in DOMAIN variant THEN variant.gnomad_af ELSE <<>>,
         cadd_score |-> IF "cadd_score" \in DOMAIN variant THEN variant.cadd_score ELSE <<>>,
         fnc_category |-> found.fnc_category,
         fnc_interpretation |-> found.fnc_interpretation]

\* line 136: annotate_variant(v, v.get("gene")) for a variant dictionary
annotate_variant_call ==
    /\ \E gene \in {"", "CNTNAP2", "cntnap2", "Cntnap2", "MBP", "FOXP2", "CACNA1C",
                     "cacna1c", "GRIN2B", "SHANK3", "NLGN4X", "XYZ"},
          scores \in [cadd_score : {<<>>, <<14>>, <<15>>},
                      gnomad_af : {<<>>, <<10>>, <<11>>}] :
          LET variant == IF gene = "" THEN scores
                         ELSE [gene |-> gene, cadd_score |-> scores.cadd_score,
                               gnomad_af |-> scores.gnomad_af]
          IN  handed' = Handed("annotate_variant", [variant |-> variant, gene |-> gene],
                               annotate_variant(variant, gene))
    /\ UNCHANGED <<heap, calls>>

\* ---- variant_annotation.py: filter_neural_variants ----
\* An Optional[float] is <<>> for None and <<x>> for the number x; CADD scores
\* are whole numbers and frequencies are in thousandths.  fnc_category None is "".
MaxAnnotated == 2

\* a filter that also drops a CADD score equal to min_cadd
filter_neural_variants_above(variants, min_cadd, max_gnomad_af) ==
    LET RECURSIVE Loop(_, _)
        Loop(i, filtered) ==
            IF i > Len(variants) THEN filtered
            ELSE LET v == variants[i]
                 IN  IF v.fnc_category = "" THEN Loop(i + 1, filtered)
                     ELSE IF v.cadd_score # <<>> /\ v.cadd_score[1] <= min_cadd
                     THEN Loop(i + 1, filtered)
                     ELSE IF v.gnomad_af # <<>> /\ v.gnomad_af[1] > max_gnomad_af
                     THEN Loop(i + 1, filtered)
                     ELSE Loop(i + 1, Append(filtered, v))
    IN  Loop(1, <<>>)

\* lines 139-172: the loop with its three "continue" tests
filter_neural_variants(variants, min_cadd, max_gnomad_af) ==
    LET RECURSIVE Loop(_, _)
        Loop(i, filtered) ==
            IF i > Len(variants) THEN filtered
            ELSE LET v == variants[i]
                 IN  IF v.fnc_category = "" THEN Loop(i + 1, filtered)
                     ELSE IF v.cadd_score # <<>> /\ v.cadd_score[1] < min_cadd
                     THEN Loop(i + 1, filtered)
                     ELSE IF v.gnomad_af # <<>> /\ v.gnomad_af[1] > max_gnomad_af
                     THEN Loop(i + 1, filtered)
                     ELSE Loop(i + 1, Append(filtered, v))
    IN  Loop(1, <<>>)

\* a call on a new list, the thresholds at their defaults (15 and 0.01) or
\* given, or a call on the list the last call returned with its thresholds;
\* the frame holds the list the call was given and the list it built
filter_neural_variants_call ==
    /\ \/ /\ handed = None
          /\ \E variants \in SeqsUpTo([fnc_category : {"", "bandwidth"},
                                      cadd_score : {<<>>, <<14>>, <<15>>},
                                      gnomad_af : {<<>>, <<10>>, <<11>>}],
                                     MaxAnnotated),
             thresholds \in {<<15, 10>>, <<14, 11>>} :
             /\ handed' = Handed("filter_neural_variants",
                     [variants |-> variants, min_cadd |-> thresholds[1],
                      max_gnomad_af |-> thresholds[2], again |-> FALSE],
                     [ref |-> <<"frame", "filtered">>])
             /\ heap' = [heap EXCEPT !.frame =
                     [name \in {"variants", "filtered"} |->
                         IF name = "variants" THEN variants
                         ELSE filter_neural_variants(variants, thresholds[1],
                                                     thresholds[2])]]
       \/ /\ handed # None
          /\ handed.fn = "filter_neural_variants"
          /\ ~handed.args.again
          /\ LET variants == At(heap, handed.value.ref)
             IN  /\ handed' = Handed("filter_neural_variants",
                         [handed.args EXCEPT !.variants = variants, !.again = TRUE],
                         [ref |-> <<"frame", "filtered">>])
                 /\ heap' = [heap EXCEPT !.frame =
                         [name \in {"variants", "filtered"} |->
                             IF name = "variants" THEN variants
                             ELSE filter_neural_variants(variants,
                                      handed.args.min_cadd,
                                      handed.args.max_gnomad_af)]]
    /\ UNCHANGED calls

\* ---- run_visualizations, one chart at a time ----
\* the chart calls with a case name "Kim Peek" for the timeline, which
\* CASE_TIMELINES does not hold
VizCallsForKimPeek ==
    <<[fn |-> "create_domain_radar", case_name |-> "",
       file |-> "domain_radar_population.png", show_plot |-> FALSE],
      [fn |-> "create_individual_profile", case_name |-> "Jason Padgett",
       file |-> "profile_padgett.png", show_plot |-> FALSE],
      [fn |-> "create_lesion_heatmap", case_name |-> "",
       file |-> "lesion_heatmap.png", show_plot |-> FALSE],
      [fn |-> "create_case_comparison", case_name |-> "",
       file |-> "case_lesion_comparison.png", show_plot |-> FALSE],
      [fn |-> "create_case_timeline", case_name |-> "Kim Peek",
       file |-> "case_timelines_all.png", show_plot |-> FALSE],
      [fn |-> "create_onset_comparison", case_name |-> "",
       file |-> "onset_comparison.png", show_plot |-> FALSE],
      [fn |-> "create_tuning_comparison", case_name |-> "",
       file |-> "fnc_tuning_comparison.png", show_plot |-> FALSE],
      [fn |-> "create_tuning_spectrum", case_name |-> "",
       file |-> "fnc_tuning_spectrum.png", show_plot |-> FALSE]>>

\* run_analysis.py lines 41-102: the eight calls in order; case_name is "" where
\* the call leaves it at its default None
VizCalls ==
    <<[fn |-> "create_domain_radar", case_name |-> "",
       file |-> "domain_radar_population.png", show_plot |-> FALSE],
      [fn |-> "create_individual_profile", case_name |-> "Jason Padgett",
       file |-> "profile_padgett.png", show_plot |-> FALSE],
      [fn |-> "create_lesion_heatmap", case_name |-> "",
       file |-> "lesion_heatmap.png", show_plot |-> FALSE],
      [fn |-> "create_case_comparison", case_name |-> "",
       file |-> "case_lesion_comparison.png", show_plot |-> FALSE],
      [fn |-> "create_case_timeline", case_name |-> "",
       file |-> "case_timelines_all.png", show_plot |-> FALSE],
      [fn |-> "create_onset_comparison", case_name |-> "",
       file |-> "onset_comparison.png", show_plot |-> FALSE],
      [fn |-> "create_tuning_comparison", case_name |-> "",
       file |-> "fnc_tuning_comparison.png", show_plot |-> FALSE],
      [fn |-> "create_tuning_spectrum", case_name |-> "",
       file |-> "fnc_tuning_spectrum.png", show_plot |-> FALSE]>>

\* what a chart function does with its arguments: the table lookups of its
\* body, then "if output_path: plt.savefig(output_path)" and
\* "if show_plot: plt.show()".  The plotting calls themselves are taken to
\* succeed: each passes sequences of equal length built from the same table.
Chart(call, output_path) ==
    LET CASE_TIMELINES == heap.module.CASE_TIMELINES
        raised ==
            IF /\ call.fn = "create_case_timeline"
               /\ call.case_name # ""
               /\ call.case_name \notin DOMAIN CASE_TIMELINES
            THEN "KeyError" ELSE ""
    IN  [raised |-> raised,
         saved  |-> IF raised = "" /\ output_path # <<>> THEN {output_path} ELSE {},
         shown  |-> raised = "" /\ call.show_plot]

ChartsDone == Cardinality({i \in 1..Len(log) : log[i][1] = "chart"})

\* run_analysis.py lines 41-104: the next chart call; an exception leaves
\* run_visualizations and main, which catch nothing
run_visualizations_chart ==
    /\ pc = "in_viz"
    /\ LET call == VizCalls[ChartsDone + 1]
           outcome == Chart(call, <<output, call.file>>)
       IN  /\ handed' = Handed(call.fn, call.case_name, outcome)
           /\ written' = written \cup outcome.saved
           /\ log' = IF outcome.raised # "" THEN log
                     ELSE IF ChartsDone + 1 = Len(VizCalls)
                     THEN log \o <<(<<"chart", call.fn>>), (<<"exit", "viz">>)>>
                     ELSE Append(log, <<"chart", call.fn>>)
           /\ pc' = IF outcome.raised # "" THEN "raised"
                    ELSE IF ChartsDone + 1 = Len(VizCalls) THEN "stats"
                    ELSE "in_viz"
    /\ UNCHANGED <<argv, args, output, stats_results, genetic_results, report_args,
                   heap, calls>>

(***************************************************************************)
(* pathway_enrichment.py: run_pathway_enrichment on any gene list          *)
(***************************************************************************)
MaxGenes == 4

\* gene symbols of three pathways, one of them also in lower case, and a
\* symbol SAVANT_CANDIDATE_GENES does not hold
GeneSymbols == {"CACNA1C", "cacna1c", "SHANK3", "MBP", "XYZ"}

GeneLists == SeqsUpTo(GeneSymbols, MaxGenes)

\* lines 123-182, called with background_size and significance_threshold left
\* at their defaults, 20000 and 0.05
run_pathway_enrichment_list ==
    /\ handed = None
    /\ \E gene_list \in GeneLists :
          handed' = Handed("run_pathway_enrichment", gene_list,
                           run_pathway_enrichment(gene_list, 20000, 5000))
    /\ UNCHANGED <<heap, calls>>

(***************************************************************************)
(* run_analysis.py: the dictionaries handed to generate_report             *)
(*                                                                         *)
(* A dictionary is a record, one field per key.  A value the report only   *)
(* dumps with json.dumps(..., default=str) is named by the call that       *)
(* builds it.                                                              *)
(***************************************************************************)
\* the dictionary without its last key
run_all_analyses_without_meta_interpretation ==
    [autism_savant_association |-> "autism_savant_association()",
     domain_specificity        |-> domain_specificity_test(DOMAIN_DISTRIBUTION),
     autism_gradient           |-> "autism_savant_gradient()"]

\* prevalence_analysis.py lines 291-310
run_all_analyses ==
    [autism_savant_association |-> "autism_savant_association()",
     domain_specificity        |-> domain_specificity_test(DOMAIN_DISTRIBUTION),
     autism_gradient           |-> "autism_savant_gradient()",
     meta_interpretation       |-> "All statistical analyses support the FNC framework"]

\* effect_sizes.py lines 319-343
calculate_all_effects ==
    [tms_effects    |-> tms_enhancement_effects,
     lesion_effects |-> "lesion_effect_analysis()",
     summary        |-> [key_findings |-> "key_findings",
                         implications_for_fnc |-> "implications_for_fnc"]]

\* pathway_enrichment.py lines 185-249: one summary line and one node
\* modification per enriched pathway, one prediction for four of the pathways
fnc_pathway_interpretation(enrichment_results) ==
    LET names == SelectSeq(<<"synaptic_transmission", "ion_channels",
                             "neuronal_development", "excitation_inhibition",
                             "myelination", "sensory_processing">>,
                           LAMBDA pathway_name :
                               pathway_name \in DOMAIN enrichment_results)
        predicted == SelectSeq(names,
                               LAMBDA pathway_name :
                                   pathway_name \in {"ion_channels",
                                                     "excitation_inhibition",
                                                     "myelination",
                                                     "synaptic_transmission"})
    IN  [summary |-> names,
         node_modifications |->
             [i \in 1..Len(names) |->
                 [pathway   |-> names[i],
                  mechanism |-> FNC_PATHWAY_CATEGORIES[names[i]].fnc_role,
                  genes     |-> enrichment_results[names[i]].genes_found]],
         field_access_predictions |-> predicted,
         testable_hypotheses |-> <<"H1", "H2", "H3", "H4">>]

\* run_analysis.py lines 107-125
run_statistics_returning ==
    /\ pc \in {"in_stats", "in_report_stats"}
    /\ stats_results' = [prevalence |-> run_all_analyses,
                         effects    |-> calculate_all_effects]
    /\ log' = Append(log, <<"exit", "stats">>)
    /\ pc' = IF pc = "in_stats" THEN "genetics" ELSE "report_genetics"
    /\ UNCHANGED <<argv, args, output, genetic_results, written, report_args>>

\* run_analysis.py lines 128-180.  The list is the demo list of line 142, or
\* a list naming no candidate gene, for which line 147 takes its else branch.
run_genetic_analysis_returning ==
    /\ pc \in {"in_genetics", "in_report_genetics"}
    /\ \E gene_list \in {demo_genes, <<"XYZ">>} :
          LET enrichment == run_pathway_enrichment(gene_list, 20000, 5000)
              interpretation ==
                  IF DOMAIN enrichment # {}
                  THEN fnc_pathway_interpretation(enrichment)
                  ELSE [summary |-> <<"No enriched pathways found">>]
              fnc_scores == calculate_fnc_scores(demo_variants("run_analysis"), TRUE)
          IN  genetic_results' =
                  [enrichment |->
                      [name \in DOMAIN enrichment |->
                          [genes |-> enrichment[name].genes_found,
                           p_value |-> enrichment[name].p_value,
                           fold_enrichment |-> enrichment[name].fold_enrichment]],
                   interpretation |-> interpretation,
                   mni_protocol |-> "analyze_mni_dataset_predictions()",
                   demo_fnc_scores |->
                      [frequency   |-> fnc_scores.frequency_score,
                       filtering   |-> fnc_scores.filtering_score,
                       integration |-> fnc_scores.integration_score,
                       bandwidth   |-> fnc_scores.bandwidth_score,
                       predicted_domain |-> fnc_scores.predicted_domain]]
    /\ log' = Append(log, <<"exit", "genetics">>)
    /\ pc' = IF pc = "in_genetics" THEN "report" ELSE "generate"
    /\ UNCHANGED <<argv, args, output, stats_results, written, report_args>>

\* run_analysis.py lines 208-241: the subscripts of the report's f-string, in
\* the order they are evaluated; the first member names the argument
ReportReads ==
    <<(<<"stats_results", "prevalence", "autism_savant_association">>),
      (<<"stats_results", "prevalence", "domain_specificity">>),
      (<<"stats_results", "effects", "tms_effects", "meta_analysis", "weighted_mean_d">>),
      (<<"stats_results", "effects", "tms_effects", "meta_analysis", "k_studies">>),
      (<<"stats_results", "effects", "tms_effects", "meta_analysis", "total_n">>),
      (<<"genetic_results", "enrichment">>),
      (<<"genetic_results", "interpretation">>),
      (<<"genetic_results", "mni_protocol">>),
      (<<"stats_results", "prevalence", "meta_interpretation">>)>>

\* d[k1][k2]...: the keys up to and including the first one that d lacks, or
\* the empty sequence if every subscript finds its key
RECURSIVE MissingKey(_, _, _)
MissingKey(d, keys, at) ==
    IF at > Len(keys) THEN <<>>
    ELSE IF keys[at] \notin DOMAIN d THEN SubSeq(keys, 1, at)
    ELSE MissingKey(d[keys[at]], keys, at + 1)

\* run_analysis.py lines 183-269: a subscript without its key raises KeyError
\* before write_text of line 266
generate_report_reading ==
    /\ pc = "in_report"
    /\ LET arguments == [stats_results |-> stats_results,
                         genetic_results |-> genetic_results]
           missing == SelectSeq([i \in 1..Len(ReportReads) |->
                                    MissingKey(arguments, ReportReads[i], 1)],
                                LAMBDA keys : keys # <<>>)
       IN  IF missing = <<>>
           THEN /\ report_args' = arguments
                /\ written' = written \cup InDir(output, {ReportFile})
                /\ log' = Append(log, <<"exit", "report">>)
                /\ pc' = "complete"
           ELSE /\ report_args' = [raised |-> "KeyError", keys |-> Head(missing)]
                /\ pc' = "raised"
                /\ UNCHANGED <<written, log>>
    /\ UNCHANGED <<argv, args, output, stats_results, genetic_results>>

(***************************************************************************)
(* Specifications                                                          *)
(***************************************************************************)
notMain    == <<scoreVars, fncVars, patVars, prevVars, objVars>>
notScore   == <<mainVars, fncVars, patVars, prevVars, objVars>>
notFnc     == <<mainVars, scoreVars, patVars, prevVars, objVars>>
notPattern == <<mainVars, scoreVars, fncVars, prevVars, objVars>>
notPrev    == <<mainVars, scoreVars, fncVars, patVars, objVars>>

InitMain == MainIdle /\ ScoreIdle /\ FncIdle /\ PatternIdle /\ PrevIdle /\ TablesIdle
NextMain ==
    \/ main_parse /\ UNCHANGED notMain
    \/ main_viz /\ UNCHANGED notMain
    \/ run_visualizations /\ UNCHANGED notMain
    \/ main_stats /\ UNCHANGED notMain
    \/ run_statistics /\ UNCHANGED notMain
    \/ main_genetics /\ UNCHANGED notMain
    \/ run_genetic_analysis /\ UNCHANGED notMain
    \/ main_report /\ UNCHANGED notMain
    \/ main_report_stats /\ UNCHANGED notMain
    \/ main_report_genetics /\ UNCHANGED notMain
    \/ main_generate /\ UNCHANGED notMain
    \/ generate_report /\ UNCHANGED notMain
    \/ main_complete /\ UNCHANGED notMain
SpecMain == InitMain /\ [][NextMain]_vars

InitScore == MainIdle /\ ScoreInit /\ FncIdle /\ PatternIdle /\ PrevIdle /\ TablesIdle
NextScore == Score /\ UNCHANGED notScore
SpecScore == InitScore /\ [][NextScore]_vars

InitFnc == MainIdle /\ ScoreIdle /\ FncInit /\ PatternIdle /\ PrevIdle /\ TablesIdle
NextFnc == Fnc /\ UNCHANGED notFnc
SpecFnc == InitFnc /\ [][NextFnc]_vars

\* predict_domain applied to a profile of five scores, each a number of tenths
\* on a grid that holds the thresholds 0.5, 0.6 and 0.7 and both neighbours
DomainInit ==
    /\ fnc_in \in [dimension_scores :
                     [{FncDims[i] : i \in 1..Len(FncDims)} -> {0, 5, 6, 7, 8, 10}]]
    /\ fnc_out = None

predict_domain_call ==
    /\ fnc_out = None
    /\ fnc_out' = [predicted_domain |->
                      predict_domain([dim \in DOMAIN fnc_in.dimension_scores |->
                          [n |-> fnc_in.dimension_scores[dim], d |-> 10]])]
    /\ UNCHANGED fnc_in

InitDomain == MainIdle /\ ScoreIdle /\ DomainInit /\ PatternIdle /\ PrevIdle /\ TablesIdle
NextDomain == predict_domain_call /\ UNCHANGED notFnc
SpecDomain == InitDomain /\ [][NextDomain]_vars

InitPattern == MainIdle /\ ScoreIdle /\ FncIdle /\ PatternIdle /\ PrevIdle /\ TablesIdle
NextPattern ==
    \/ run_pattern_test_call /\ UNCHANGED notPattern
    \/ run_pattern_test_prompt /\ UNCHANGED notPattern
    \/ run_pattern_test_return /\ UNCHANGED notPattern
    \/ compare_call /\ UNCHANGED notPattern
    \/ run_tuning_experiment_call /\ UNCHANGED notPattern
    \/ tuning_run_test /\ UNCHANGED notPattern
    \/ tuning_collect /\ UNCHANGED notPattern
    \/ tuning_analyze /\ UNCHANGED notPattern
SpecPattern == InitPattern /\ [][NextPattern]_vars

InitPrev == MainIdle /\ ScoreIdle /\ FncIdle /\ PatternIdle /\ PrevInit /\ TablesIdle
NextPrev == Prev /\ UNCHANGED notPrev
SpecPrev == InitPrev /\ [][NextPrev]_vars

notObj == <<mainVars, scoreVars, fncVars, patVars, prevVars>>

InitTables == MainIdle /\ ScoreIdle /\ FncIdle /\ PatternIdle /\ PrevIdle /\ TablesIdle
NextTables ==
    \/ node_tuning_genes /\ UNCHANGED notObj
    \/ calculate_fnc_scores_call /\ UNCHANGED notObj
    \/ run_pathway_enrichment_call /\ UNCHANGED notObj
    \/ tms_enhancement_effects_call /\ UNCHANGED notObj
    \/ lesion_effect_analysis /\ UNCHANGED notObj
    \/ create_domain_radar /\ UNCHANGED notObj
    \/ create_case_timeline /\ UNCHANGED notObj
SpecTables == InitTables /\ [][NextTables]_vars

NextPure ==
    \/ calculate_fnc_scores_call /\ UNCHANGED notObj
    \/ run_pathway_enrichment_call /\ UNCHANGED notObj
    \/ pattern_test_enter /\ UNCHANGED notPatObj
    \/ run_pattern_test_prompt /\ UNCHANGED notPattern
    \/ pattern_test_leave /\ UNCHANGED notPatObj
SpecPure == InitTables /\ [][NextPure]_vars

NextAlias ==
    \/ node_tuning_genes /\ UNCHANGED notObj
    \/ calculate_fnc_scores_call /\ UNCHANGED notObj
    \/ run_pathway_enrichment_call /\ UNCHANGED notObj
    \/ tms_enhancement_effects_call /\ UNCHANGED notObj
    \/ lesion_effect_analysis /\ UNCHANGED notObj
    \/ create_domain_radar /\ UNCHANGED notObj
    \/ create_case_timeline /\ UNCHANGED notObj
    \/ caller_modify /\ UNCHANGED notObj
SpecAlias == InitTables /\ [][NextAlias]_vars

NextClient ==
    \/ run_pattern_test_call /\ UNCHANGED notPattern
    \/ run_pattern_test_prompt_client /\ UNCHANGED notPatObj
    \/ run_pattern_test_return /\ UNCHANGED notPattern
SpecClient == InitPattern /\ [][NextClient]_vars

NextCheck == check_answer_call /\ UNCHANGED notObj
SpecCheck == InitTables /\ [][NextCheck]_vars

NextSpecificity == domain_specificity_test_call /\ UNCHANGED notObj
SpecSpecificity == InitTables /\ [][NextSpecificity]_vars

NextFilter == filter_neural_variants_call /\ UNCHANGED notObj
SpecFilter == InitTables /\ [][NextFilter]_vars

NextAnnotate == annotate_variant_call /\ UNCHANGED notObj
SpecAnnotate == InitTables /\ [][NextAnnotate]_vars

NextEnrich == run_pathway_enrichment_list /\ UNCHANGED notObj
SpecEnrich == InitTables /\ [][NextEnrich]_vars

NextReport ==
    \/ main_parse /\ UNCHANGED notMain
    \/ main_viz /\ UNCHANGED notMain
    \/ run_visualizations /\ UNCHANGED notMain
    \/ main_stats /\ UNCHANGED notMain
    \/ run_statistics_returning /\ UNCHANGED notMain
    \/ main_genetics /\ UNCHANGED notMain
    \/ run_genetic_analysis_returning /\ UNCHANGED notMain
    \/ main_report /\ UNCHANGED notMain
    \/ main_report_stats /\ UNCHANGED notMain
    \/ main_report_genetics /\ UNCHANGED notMain
    \/ main_generate /\ UNCHANGED notMain
    \/ generate_report_reading /\ UNCHANGED notMain
    \/ main_complete /\ UNCHANGED notMain
SpecReport == InitMain /\ [][NextReport]_vars

notMainHanded == <<scoreVars, fncVars, patVars, prevVars>>
NextViz ==
    \/ main_parse /\ UNCHANGED notMain
    \/ main_viz /\ UNCHANGED notMain
    \/ run_visualizations_chart /\ UNCHANGED notMainHanded
SpecViz == InitMain /\ [][NextViz]_vars

(***************************************************************************)
(* Properties                                                              *)
(***************************************************************************)
Groups == {"viz", "stats", "genetics", "report"}
Rank(g) == CASE g = "viz" -> 1 [] g = "stats" -> 2 [] g = "genetics" -> 3
             [] g = "report" -> 4

Entered(g)  == \E i \in 1..Len(log) : log[i] = <<"enter", g>>
Finished(g) == \E i \in 1..Len(log) : log[i] = <<"exit", g>>
TimesEntered(g) == Cardinality({i \in 1..Len(log) : log[i] = <<"enter", g>>})

\* the groups the command line asks for, read off the flags as given
Asked(g) == argv = {} \/ "all" \in argv \/ g \in argv

\* C1: an invocation that gives two or more of the selection flags is rejected
\* and runs no analysis group.
C1_ExclusiveFlagsRunNothing == Cardinality(argv) >= 2 => log = <<>>

\* C2: main runs one group at a time; the groups the flags select run in the
\* order visualizations, statistics, genetic analysis, report; a group starts
\* only when every selected group that precedes it in that order has finished;
\* ANALYSIS COMPLETE is reached only when every selected group has finished.
C2_FixedSequence ==
    /\ \A i \in 1..Len(log) :
          IF i % 2 = 1
          THEN log[i][1] = "enter"
          ELSE log[i] = <<"exit", log[i - 1][2]>>
    /\ \A i, j \in 1..Len(log) :
          (/\ i < j
           /\ log[i][1] = "enter" /\ Asked(log[i][2])
           /\ log[j][1] = "enter" /\ Asked(log[j][2]))
              => Rank(log[i][2]) < Rank(log[j][2])
    /\ \A j \in 1..Len(log) :
          log[j][1] = "enter" =>
              \A g \in Groups :
                  (Asked(g) /\ Rank(g) < Rank(log[j][2]))
                      => \E i \in 1..(j - 1) : log[i] = <<"exit", g>>
    /\ pc = "done" => \A g \in Groups : Asked(g) => Finished(g)

C2_Witness ==
    /\ pc = "done"
    /\ argv = {"viz", "genetics", "report"}
    /\ Len(log) = 8

\* C3: when generate_report is called, the statistics and the genetics results
\* are both values returned earlier in this invocation, and run_statistics and
\* run_genetic_analysis are each called at most once.
C3_ReportInputsOnce ==
    /\ pc = "in_report" =>
          /\ stats_results = StatsValue /\ Finished("stats")
          /\ genetic_results = GeneticValue /\ Finished("genetics")
    /\ report_args # None =>
          /\ report_args.stats_results = StatsValue
          /\ report_args.genetic_results = GeneticValue
    /\ TimesEntered("stats") <= 1
    /\ TimesEntered("genetics") <= 1

C3_Witness ==
    /\ report_args # None
    /\ argv = {"stats", "report"}
    /\ TimesEntered("stats") = 1
    /\ TimesEntered("genetics") = 1

\* the calls, files and report inputs of a complete run with --all
AllLog == <<<<"enter", "viz">>, <<"exit", "viz">>,
            <<"enter", "stats">>, <<"exit", "stats">>,
            <<"enter", "genetics">>, <<"exit", "genetics">>,
            <<"enter", "report">>, <<"exit", "report">>>>

RunsEverything ==
    /\ log = AllLog
    /\ written = InDir(output, VizFiles \cup {ReportFile})
    /\ report_args = [stats_results |-> StatsValue,
                      genetic_results |-> GeneticValue]

\* C4: an invocation with no selection flag ends as an invocation with --all
\* does: the same calls in the same order, the same files, the same report inputs.
C4_NoFlagsIsAll ==
    (pc = "done" /\ (argv = {} \/ argv = {"all"})) => RunsEverything

C4_Witness == pc = "done" /\ argv = {} /\ Len(log) = 8

\* C5: with exactly one of --viz, --stats, --genetics only that group runs and
\* no report file is written; with --report alone statistics, genetics and the
\* report run, the report file is written, and no visualization is generated.
C5_OnlySelectedGroup ==
    /\ \A g \in {"viz", "stats", "genetics"} :
          argv = {g} =>
              /\ \A h \in Groups \ {g} : ~Entered(h)
              /\ <<output, ReportFile>> \notin written
              /\ report_args = None
              /\ g # "viz" => written = {}
              /\ pc = "done" => Finished(g) /\ TimesEntered(g) = 1
    /\ argv = {"report"} =>
          /\ ~Entered("viz")
          /\ written \subseteq InDir(output, {ReportFile})
          /\ pc = "done" =>
                /\ Finished("stats") /\ Finished("genetics") /\ Finished("report")
                /\ written = InDir(output, {ReportFile})

C5_Witness == pc = "done" /\ argv = {"stats"} /\ Finished("stats")

\* C6: score_savant_like_response returns each of the five dimension scores
\* within [0,1] and an overall_score within [0,1], and the weights of
\* SCORING_DIMENSIONS sum to exactly 1.
C6_ScoresInUnitInterval ==
    /\ SumSeq([i \in 1..Len(Dimensions) |-> SCORING_DIMENSIONS[Dimensions[i]]]) = 100
    /\ sc_out # None =>
          /\ \A i \in 1..Len(Dimensions) :
                sc_out[Dimensions[i]] >= 0 /\ sc_out[Dimensions[i]] <= 100
          /\ sc_out.overall_score >= 0
          /\ sc_out.overall_score <= 10000

\* a response with more than five hedge phrases: the clamp at 0 acts
C6_Witness ==
    /\ sc_out # None
    /\ CountIn(hedge_words, Lower(sc_in.response)) > 5
    /\ sc_out.precision = 0

\* the gene of some variant is a key of some dimension of NODE_TUNING_GENES
HasTuningGene(variant_genes) ==
    \E i \in 1..Len(variant_genes) : \E dim \in DOMAIN NODE_TUNING_GENES :
        Upper(Get(variant_genes[i], "gene", "")) \in DOMAIN NODE_TUNING_GENES[dim]

InUnit(x) == x.d > 0 /\ 0 <= x.n /\ x.n <= x.d

FncScoreFields == {"frequency_score", "filtering_score", "integration_score",
                   "bandwidth_score", "pattern_score"}

\* C7: with normalize=True calculate_fnc_scores returns five dimension scores
\* and an overall_score within [0,1], and when some variant's gene is in
\* NODE_TUNING_GENES the largest dimension score is exactly 1.
C7_NormalizedInUnitInterval ==
    (fnc_out # None /\ fnc_in.normalize) =>
        /\ \A f \in FncScoreFields : InUnit(fnc_out[f])
        /\ InUnit(fnc_out.overall_score)
        /\ HasTuningGene(fnc_in.variants) =>
              /\ \E f \in FncScoreFields : fnc_out[f].n = fnc_out[f].d
              /\ \A f \in FncScoreFields : fnc_out[f].n <= fnc_out[f].d

\* two variants whose contributions to one dimension add up to more than 1
C7_Witness ==
    /\ fnc_out # None
    /\ fnc_in.normalize
    /\ HasTuningGene(fnc_in.variants)
    /\ fnc_out.frequency_score.d > 1000
    /\ fnc_out.frequency_score.n = fnc_out.frequency_score.d

\* C8: run_pattern_test with a category that is no key of PATTERN_TESTS raises
\* before any model call and returns no results; with a category that is a key
\* it raises nothing.
C8_UnknownCategoryRaises ==
    pt.status # "idle" =>
        IF pt.category \in DOMAIN PATTERN_TESTS
        THEN pt.status \in {"running", "returned"}
        ELSE /\ pt.status = "raised"
             /\ pt.results = <<>>
             /\ model_calls = 0

C8_Witness ==
    /\ pt.status = "raised"
    /\ pt.category = "unknown"
    /\ model_calls = 0

\* C9: compare_model_responses raises no division error; a model with an empty
\* result list gets accuracy 0, correct 0, total 0 and avg_response_time 0; an
\* accuracy whose total is 0 is 0, for every model and domain, and in
\* run_tuning_experiment for every category.
C9_ZeroTotalsGuarded ==
    /\ cmp_out # None =>
          /\ ~cmp_out.raised
          /\ \A i \in 1..Len(cmp_in.items) :
                cmp_in.items[i].results = <<>> =>
                    cmp_out.models[cmp_in.items[i].model] =
                        [accuracy |-> Zero, correct |-> 0, total |-> 0,
                         avg_response_time |-> Zero]
          /\ \A m \in DOMAIN cmp_out.models :
                cmp_out.models[m].total = 0 => cmp_out.models[m].accuracy = Zero
          /\ \A dom \in DOMAIN cmp_out.accuracies :
                \A m \in DOMAIN cmp_out.accuracies[dom] :
                    /\ ~cmp_out.accuracies[dom][m].err
                    /\ cmp_out.domain_performance[dom][m].total = 0
                          => cmp_out.accuracies[dom][m] = Zero
    /\ \A k \in DOMAIN te.results :
          /\ ~te.results[k].accuracy.err
          /\ te.results[k].total = 0 => te.results[k].accuracy = Zero
    /\ TuningMetrics(<<>>) = [accuracy |-> Zero, correct |-> 0, total |-> 0]

C9_Witness ==
    /\ cmp_out # None
    /\ Len(cmp_in.items) = 2
    /\ cmp_in.items[1].results # <<>>
    /\ cmp_in.items[2].results = <<>>
    /\ cmp_out.models["b"].total = 0

\* C10: prevalence_confidence_intervals with n_total = 0 returns a result
\* record with fallback values instead of failing with a division error.
C10_ZeroTotalReturnsRecord ==
    (ci_out # None /\ ci_in.n_total = 0) => ci_out.raised = ""

\* C11: with the stub of _call_model every TestResult of run_pattern_test has
\* the placeholder as model_answer and correct = False, every accuracy that
\* run_tuning_experiment records is 0, and no tuning prompt is reported with a
\* category that improved over the neutral prompt.
C11_StubNeverCorrect ==
    /\ \A c \in {"a", "b"}, m \in {"unknown", "gpt"} :
           _call_model(c, <<>>, m) = Placeholder
    /\ \A i \in 1..Len(pt.results) :
           /\ pt.results[i].model_answer = Placeholder
           /\ ~pt.results[i].correct
    /\ \A k \in DOMAIN te.results :
           /\ te.results[k].accuracy.n = 0
           /\ te.results[k].correct = 0
    /\ te.status = "returned"
           => \A i \in DOMAIN te.tuning_effects : te.tuning_effects[i] = <<>>

C11_Witness ==
    /\ te.status = "returned"
    /\ Cardinality(DOMAIN te.results) = Len(TuningOrder) * Len(CategoryOrder)
    /\ \A k \in DOMAIN te.results : te.results[k].total = 3
    /\ DOMAIN te.tuning_effects = 2..Len(TuningOrder)

\* C12: no function modifies a module-level table: after any sequence of calls
\* of the public functions every module-level name is bound to a table equal to
\* its load-time value, and no new module-level name is bound.
C12_TablesNeverModified == heap.module = LoadTime

C12_Witness ==
    /\ calls.n = MaxCalls
    /\ Len(calls.log) = MaxCalls
    /\ handed.fn = "lesion_effect_analysis"
    /\ \A location \in DOMAIN heap.frame.lesion_data :
           "proportion" \in DOMAIN heap.frame.lesion_data[location]

\* two recorded calls of one function with equal arguments
SameCall(i, j) ==
    /\ calls.log[i].fn = calls.log[j].fn
    /\ calls.log[i].args = calls.log[j].args

WithoutTime(results) ==
    [k \in 1..Len(results) |->
        [f \in DOMAIN results[k] \ {"response_time"} |-> results[k][f]]]

C14_NoSharedMutableState ==
    /\ NODE_TUNING_GENES = LoadTime.NODE_TUNING_GENES
    /\ FNC_PATHWAY_CATEGORIES = LoadTime.FNC_PATHWAY_CATEGORIES
    /\ \A i, j \in 1..Len(calls.log) :
           SameCall(i, j) /\ calls.log[i].fn # "run_pattern_test"
               => calls.log[i].result = calls.log[j].result

\* C15: the meta-analytic value tms_enhancement_effects computes from
\* TMS_STUDIES, the sample-size-weighted mean of the five studies' Cohen's d
\* (in thousandths here), with k_studies = 5 and total_n = 87, rounds to the
\* documented 1.4 at one decimal.
C15_MetaAnalysisIsDocumentedValue ==
    (handed # None /\ handed.fn = "tms_enhancement_effects")
        => LET meta_analysis == handed.value.meta_analysis
           IN  /\ (meta_analysis.weighted_mean_d + 50) \div 100 = 14
               /\ meta_analysis.k_studies = 5
               /\ meta_analysis.total_n = 87

\* C16: predict_domain maps every profile of five dimension scores to exactly
\* one of Music, Mathematics, Art, Calendar, Undetermined, by first match:
\* Music if frequency > 0.7 and pattern > 0.5; else Mathematics if
\* integration > 0.7 and frequency > 0.5; else Art if bandwidth > 0.7; else
\* Calendar if integration > 0.6 and pattern > 0.6; else Undetermined; a score
\* equal to a threshold does not satisfy it.  Scores are in tenths.
C16_FirstMatchStrict ==
    (fnc_out # None /\ "predicted_domain" \in DOMAIN fnc_out
                    /\ "dimension_scores" \in DOMAIN fnc_in)
        => LET s == fnc_in.dimension_scores
               label == fnc_out.predicted_domain
               music == s["frequency"] >= 8 /\ s["pattern"] >= 6
               mathematics == s["integration"] >= 8 /\ s["frequency"] >= 6
               art == s["bandwidth"] >= 8
               calendar == s["integration"] >= 7 /\ s["pattern"] >= 7
           IN  /\ label \in {"Music", "Mathematics", "Art", "Calendar", "Undetermined"}
               /\ label = "Music" <=> music
               /\ label = "Mathematics" <=> ~music /\ mathematics
               /\ label = "Art" <=> ~music /\ ~mathematics /\ art
               /\ label = "Calendar" <=> ~music /\ ~mathematics /\ ~art /\ calendar
               /\ label = "Undetermined"
                      <=> ~music /\ ~mathematics /\ ~art /\ ~calendar

\* every score equal to 0.7: only the Calendar thresholds (0.6) are exceeded
C16_Witness ==
    /\ fnc_out # None
    /\ "dimension_scores" \in DOMAIN fnc_in
    /\ \A dim \in DOMAIN fnc_in.dimension_scores : fnc_in.dimension_scores[dim] = 7
    /\ fnc_out.predicted_domain = "Calendar"

\* C17: the lookup tables are complete for the demo inputs: each of the seven
\* demo genes of run_genetic_analysis is a key of SAVANT_CANDIDATE_GENES, each
\* gene of its three demo variants and of the five demo variants of the
\* gene-scoring script belongs to a dimension of NODE_TUNING_GENES, and every
\* pathway a SAVANT_CANDIDATE_GENES entry names is a key of
\* FNC_PATHWAY_CATEGORIES.
C17_TablesCoverDemoInputs ==
    /\ Len(demo_genes) = 7
    /\ \A i \in 1..Len(demo_genes) : demo_genes[i] \in DOMAIN SAVANT_CANDIDATE_GENES
    /\ Len(demo_variants("run_analysis")) = 3
    /\ Len(demo_variants("fnc_gene_scoring")) = 5
    /\ \A script \in {"run_analysis", "fnc_gene_scoring"} :
           \A i \in 1..Len(demo_variants(script)) :
               \E dimension \in DOMAIN NODE_TUNING_GENES :
                   demo_variants(script)[i].gene \in DOMAIN NODE_TUNING_GENES[dimension]
    /\ \A gene \in DOMAIN SAVANT_CANDIDATE_GENES :
           SAVANT_CANDIDATE_GENES[gene].pathway \in DOMAIN FNC_PATHWAY_CATEGORIES

\* both demos have run against the tables: the enrichment of the demo genes is
\* in the log and the scores of the demo variants were handed out last
C17_Witness ==
    /\ \E i \in 1..Len(calls.log) :
           /\ calls.log[i].fn = "run_pathway_enrichment"
           /\ calls.log[i].args = demo_genes
           /\ calls.log[i].result # <<>>
    /\ handed # None
    /\ handed.fn = "calculate_fnc_scores"
    /\ handed.args = demo_variants("run_analysis")

ResultsFollowPrompts ==
    LET prompts == PATTERN_TESTS[pt.category].prompts
        last == Len(pt.results)
    IN  /\ pt.status \in {"running", "returned"}
        /\ last = pt.idx - 1
        /\ \A i \in 1..last : pt.results[i].question = prompts[i].question
        /\ pt.status = "returned" => last = Len(prompts)
        /\ (last > 0 /\ handed # None)
               => IF handed.value.kind = "returns"
                  THEN pt.results[last].model_answer = handed.value.response
                  ELSE /\ ~pt.results[last].correct
                       /\ Len(pt.results[last].model_answer) >= 7
                       /\ SubSeq(pt.results[last].model_answer, 1, 7)
                              = <<"E", "R", "R", "O", "R", ":", " ">>

\* C19: run_pattern_test on a known category returns exactly one TestResult
\* per prompt, in prompt order, whatever the model call does: when the model
\* call or the answer check raises for a prompt, that prompt still yields a
\* result, with correct = False and model_answer beginning with "ERROR: ", and
\* the remaining prompts are still processed.
C19_OneResultPerPromptWhatever ==
    pt.category \in DOMAIN PATTERN_TESTS => ResultsFollowPrompts

\* C19 as amended: the same for every string or other value the model call
\* returns and every exception of the Exception hierarchy it or the answer
\* check raises; an exception outside that hierarchy leaves run_pattern_test
\* and no list is returned.
C19_OneResultPerPromptUnlessNotException ==
    pt.category \in DOMAIN PATTERN_TESTS
        => IF pt.status = "raised"
           THEN handed # None /\ handed.value.error = "KeyboardInterrupt"
           ELSE ResultsFollowPrompts

\* a call that returned three results: the first a correct answer, the second
\* an error result, the third the answer given after the error
C19_Witness ==
    /\ pt.status = "returned"
    /\ Len(pt.results) = 3
    /\ pt.results[1].correct
    /\ Len(pt.results[2].model_answer) >= 7
    /\ SubSeq(pt.results[2].model_answer, 1, 7) = <<"E", "R", "R", "O", "R", ":", " ">>
    /\ pt.results[3].model_answer = Placeholder

\* the numbers a string states: its maximal runs of digits and dots that read
\* as a number
NumbersStated(s) ==
    LET numeric(k) == IsDigit(s[k]) \/ s[k] = "."
        runs == {SubSeq(s, i, j) : <<i, j>> \in
                    {p \in (1..Len(s)) \X (1..Len(s)) :
                        /\ p[1] <= p[2]
                        /\ \A k \in p[1]..p[2] : numeric(k)
                        /\ p[1] = 1 \/ ~numeric(p[1] - 1)
                        /\ p[2] = Len(s) \/ ~numeric(p[2] + 1)}}
    IN  {Float(run) : run \in {r \in runs : Float(r).ok}}

\* C20: _check_answer(response, expected) returns True only when the response
\* contains the expected answer: the expected text occurs in the response as a
\* case-insensitive substring, or the response states a number equal to the
\* expected number within 0.01; a response whose separate digits merely
\* concatenate to the expected digits is judged incorrect.
C20_TrueOnlyWhenContained ==
    (handed # None /\ handed.fn = "_check_answer" /\ handed.value)
        => LET response == handed.args[1]
               expected == handed.args[2]
           IN  \/ Contains(Strip(LowerChars(expected)), Strip(LowerChars(response)))
               \/ \E r \in NumbersStated(response), e \in NumbersStated(expected) :
                      100 * Abs(r.n * e.d - e.n * r.d) < r.d * e.d

\* C21: precision equals max(0, 1 - 0.2 h), in hundredths here, where h is the
\* number of phrases of the hedge list that occur in the response regardless
\* of letter case; a response containing "I think" scores lower precision than
\* the same response without it.
C21_PrecisionCountsEveryHedge ==
    sc_out # None
        => LET h == Cardinality({w \in hedge_words :
                                    Contains(Lower(w), Lower(sc_in.response))})
           IN  sc_out.precision = Max(0, 100 - 20 * h)

\* C22: domain_specificity_test labels a domain Over-represented exactly when
\* its standardized residual against the uniform expectation exceeds 1.96 and
\* Under-represented exactly when it is below -1.96; for the built-in
\* DOMAIN_DISTRIBUTION the over-represented domains are exactly Music and Art,
\* as the interpretation text states.  The residual of a proportion of p
\* hundredths among n domains is (10 n p - 1000) / sqrt(1000 n), compared here
\* with 1.96 by its square: 1.96 * 1.96 = 3.8416.
C22_LabelsFollowResidual ==
    (handed # None /\ handed.fn = "domain_specificity_test")
        => LET analysis == handed.value.domain_analysis
               n == Len(analysis)
               d(i) == 10 * n * analysis[i].observed - 1000
               beyond(i) == 10 * d(i) * d(i) > 38416 * n
           IN  /\ \A i \in 1..n :
                      /\ analysis[i].status = "Over-represented"
                             <=> (d(i) > 0 /\ beyond(i))
                      /\ analysis[i].status = "Under-represented"
                             <=> (d(i) < 0 /\ beyond(i))
               /\ handed.args = DOMAIN_DISTRIBUTION
                      => /\ {analysis[i].domain : i \in
                                {j \in 1..n : analysis[j].status = "Over-represented"}}
                               = {"Music", "Art"}
                         /\ handed.value.interpretation
                               = "Music and Art are significantly over-represented."

C22_Witness ==
    /\ handed # None
    /\ handed.fn = "domain_specificity_test"
    /\ handed.args = DOMAIN_DISTRIBUTION
    /\ handed.value.domain_analysis[3].status = "Expected range"
    /\ handed.value.domain_analysis[6].status = "Under-represented"

\* the variants C23 says are kept
Kept(v, min_cadd, max_gnomad_af) ==
    /\ v.fnc_category # ""
    /\ v.cadd_score = <<>> \/ v.cadd_score[1] >= min_cadd
    /\ v.gnomad_af = <<>> \/ v.gnomad_af[1] <= max_gnomad_af

\* C23: filter_neural_variants returns, in input order, exactly the variants
\* that have an FNC category, whose CADD score is missing or at least min_cadd
\* and whose gnomAD frequency is missing or at most max_gnomad_af; the input
\* list is left unchanged, and filtering an already filtered list with the
\* same thresholds returns it unchanged.
C23_FilterKeepsExactly ==
    (handed # None /\ handed.fn = "filter_neural_variants")
        => LET given == handed.args.variants
               filtered == At(heap, handed.value.ref)
           IN  /\ filtered = SelectSeq(given,
                       LAMBDA v : Kept(v, handed.args.min_cadd,
                                       handed.args.max_gnomad_af))
               /\ heap.frame["variants"] = given
               /\ handed.args.again => filtered = given

\* a second call, on the one-element list the first call returned, whose
\* variant sits on both default thresholds
C23_Witness ==
    /\ handed # None
    /\ handed.fn = "filter_neural_variants"
    /\ handed.args.again
    /\ Len(handed.args.variants) = 1
    /\ handed.args.variants[1].cadd_score = <<15>>
    /\ handed.args.variants[1].gnomad_af = <<10>>
    /\ Len(At(heap, handed.value.ref)) = 1

\* C24: annotate_variant assigns each variant at most one FNC category: the
\* first category, in the order of FNC_VARIANT_CATEGORIES, whose gene list
\* contains the gene compared case-insensitively, with that category's
\* fnc_effect; CNTNAP2, listed under two categories, is annotated bandwidth
\* and never pattern_recognition; a gene in no list, or a missing gene, gets
\* category None and interpretation None, and a missing gene is recorded as
\* Unknown.
C24_FirstCategoryOnly ==
    (handed # None /\ handed.fn = "annotate_variant")
        => LET gene == handed.args.gene
               annotated == handed.value
               listing == {i \in 1..Len(FNC_VARIANT_CATEGORIES) :
                              Upper(gene) \in {FNC_VARIANT_CATEGORIES[i].genes[k] :
                                  k \in 1..Len(FNC_VARIANT_CATEGORIES[i].genes)}}
           IN  /\ listing = {}
                      => /\ annotated.fnc_category = ""
                         /\ annotated.fnc_interpretation = ""
               /\ listing # {}
                      => LET first == CHOOSE i \in listing : \A j \in listing : i <= j
                         IN  /\ annotated.fnc_category
                                   = FNC_VARIANT_CATEGORIES[first].category
                             /\ annotated.fnc_interpretation
                                   = FNC_VARIANT_CATEGORIES[first].fnc_effect
               /\ Upper(gene) = "CNTNAP2" => annotated.fnc_category = "bandwidth"
               /\ gene = "" => annotated.gene = "Unknown"

C24_Witness ==
    /\ handed # None
    /\ handed.fn = "annotate_variant"
    /\ handed.args.gene = "cntnap2"
    /\ handed.value.fnc_category = "bandwidth"
    /\ handed.value.fnc_interpretation = "Changed Node bandwidth/capacity"

\* C25: in a run with --all or --report, every key generate_report reads is
\* present in what run_statistics and run_genetic_analysis returned, whether
\* the enrichment is empty (fallback interpretation) or not: the report is
\* never abandoned on a missing key, and once generate_report has returned the
\* report file is written from arguments holding every key it reads.
C25_ReportKeysPresent ==
    /\ pc # "raised"
    /\ pc \in {"in_report", "complete", "done"} /\ Selected("report") =>
           \A i \in 1..Len(ReportReads) :
               MissingKey([stats_results |-> stats_results,
                           genetic_results |-> genetic_results],
                          ReportReads[i], 1) = <<>>
    /\ pc \in {"complete", "done"} /\ Selected("report") =>
           <<output, ReportFile>> \in written

\* the report written from an empty enrichment and the fallback interpretation
C25_Witness ==
    /\ pc = "done"
    /\ <<output, ReportFile>> \in written
    /\ report_args # None
    /\ DOMAIN report_args.genetic_results.enrichment = {}
    /\ DOMAIN report_args.genetic_results.interpretation = {"summary"}

\* C26: every entry of the dictionary run_pathway_enrichment returns is keyed
\* by a pathway of FNC_PATHWAY_CATEGORIES, has a non-empty genes_found whose
\* members are candidate genes of that pathway named by the input in some
\* letter case, and has a p_value below the threshold; neuronal_development
\* and sensory_processing are never among the keys.
C26_EntriesAreEnrichedPathways ==
    handed # None /\ handed.fn = "run_pathway_enrichment" =>
        LET gene_list == handed.args
            results == handed.value
        IN  /\ \A name \in DOMAIN results :
                   /\ name \in DOMAIN FNC_PATHWAY_CATEGORIES
                   /\ results[name].pathway = name
                   /\ results[name].genes_found # <<>>
                   /\ \A k \in 1..Len(results[name].genes_found) :
                          LET gene == results[name].genes_found[k]
                          IN  /\ gene \in DOMAIN SAVANT_CANDIDATE_GENES
                              /\ SAVANT_CANDIDATE_GENES[gene].pathway = name
                              /\ \E i \in 1..Len(gene_list) :
                                     Upper(gene_list[i]) = Upper(gene)
                   /\ results[name].p_value < 5000
            /\ "neuronal_development" \notin DOMAIN results
            /\ "sensory_processing" \notin DOMAIN results

\* two pathways reported, one of them for a gene given in lower case
C26_Witness ==
    /\ handed # None
    /\ handed.fn = "run_pathway_enrichment"
    /\ handed.args = <<"cacna1c", "MBP", "XYZ">>
    /\ DOMAIN handed.value = {"ion_channels", "myelination"}
    /\ handed.value["ion_channels"].genes_found = <<"CACNA1C">>

\* what the call computes for each pathway it reports
Computed(results) ==
    [name \in DOMAIN results |->
        [overlap |-> Len(results[name].genes_found),
         fold_enrichment |-> results[name].fold_enrichment,
         p_value |-> results[name].p_value]]

\* C27: run_pathway_enrichment treats its gene list as a set: a list naming
\* the same genes, whatever the repeats, the letter case and the order, gets
\* the same overlap count, fold_enrichment and p_value for every pathway.
C27_GeneListIsASet ==
    handed # None /\ handed.fn = "run_pathway_enrichment" =>
        \A other \in GeneLists :
            {Upper(other[i]) : i \in 1..Len(other)}
                  = {Upper(handed.args[i]) : i \in 1..Len(handed.args)}
               => Computed(run_pathway_enrichment(other, 20000, 5000))
                     = Computed(handed.value)

====
